---- MODULE Spec2Model ----
(***************************************************************************)
(* Rotation orchestrator of the 4G proxy (src/orchestrator.py): the        *)
(* POST /rotate handler, the auto-rotation worker, the IP history, the     *)
(* public-IP check and the PPP routing guard.                              *)
(***************************************************************************)
EXTENDS Integers, Sequences, FiniteSets, TLC

\* ------------------------------------------------------------------ bounds
MaxRequests == 2
MaxCycles == 1
MaxAttemptsCfg == 2
MixedAttempts == 1
MaxAppends == 11
MaxWrites == 1
MaxToggles == 2
MaxQueries == 1
MaxImeiCalls == 4

\* ------------------------------------------------------- program constants
HistoryCap == 10
DefaultMetric == 100
PppMetricOffset == 500
PppFallbackMetric == 600

\* --------------------------------------------------------------- universes
Handlers == {"h1", "h2"}
AutoWorker == "auto"
Threads == Handlers \cup {AutoWorker}
None == "none"

Transports == {"qmi", "rndis", "ppp"}
Modes == {"auto", "qmi", "rndis", "ppp"}

\* Dotted-quad addresses are kept as their four octets.
IpA == <<1, 2, 3, 4>>
IpB == <<5, 6, 7, 8>>
LanAddr == <<192, 168, 1, 50>>
CellIPs == {IpA, IpB}

\* A value returned by get_current_ip: the text it returns, with the
\* address embedded in it (if any).
Val(text, addr) == [text |-> text, addr |-> addr]
Rotating == Val("Rotating...", <<>>)
NoCellular == Val("No cellular connection", <<>>)
UnknownProxyFailed == Val("Unknown - proxy failed", <<>>)
ProxyTimeout == Val("Proxy timeout (check cellular connection)", <<>>)
ProxyNotResponding == Val("Proxy not responding (check Squid)", <<>>)
ErrorText == Val("Error: ...", <<>>)
Unknown == Val("Unknown", <<>>)
NoValue == Val("", <<>>)
LanWarning(addr) == Val("LAN IP: (cellular routing broken!)", addr)
PublicIp(addr) == Val("ip", addr)

\* the IMEI the modem left the factory with, and the ones random.randint can
\* produce (35000000 + 8 digits: never the factory one of a SIM7600)
FactoryImei == "factory"
RandomImeis == {"random1", "random2"}
Imeis == {FactoryImei} \cup RandomImeis
ImeiUnknown == "Unknown"

VARIABLES
  rotate_lock,   \* threading.Lock: None, or the handler that holds it
  in_progress,   \* the module-level flag
  pc,            \* position of each thread
  loc,           \* locals of each thread's rotation
  result,        \* what each thread last reported
  history,       \* contents of ip_history.json
  clock,         \* datetime.now(), as a logical clock
  appended,      \* every entry ever appended to history.ips, in order
  cell_ip,       \* the public IP the carrier currently assigns
  iface_up,      \* which cellular interface has an IPv4 address
  hw,            \* which of the wwan / enx interfaces exist
  routes,        \* the host's default routes
  config,        \* config.yaml: modem.mode and the rotation.* tunables
  eff,           \* per request: what the thread has done so far
  log,           \* per request: how its attempts went so far
  reqs,          \* POST /rotate requests received so far
  cycles,        \* scheduled rotations triggered so far
  workload,      \* how many requests and scheduled rotations this run sees
  worker_config, \* the config the worker loaded at the top of its loop
  auto_rotation_enabled,  \* the module-level flag
  stat,          \* the status query being answered, if any
  ops,           \* operator calls made so far: config writes, flag changes, status queries
  modem_imei,    \* the IMEI the modem answers AT+GSN with
  original_imei, \* contents of original_imei.txt, None while the file is absent
  imei_calls,    \* the IMEI functions called so far, in order
  steps,         \* per thread: what the current attempt has done so far, in order
  stop_event,    \* auto_rotation_stop_event
  guard,         \* ensure_ppp_default_route: where it is, and the table it found
  probe,         \* one detect_*_interface call: what the tools do, and what it returns
  view,          \* one get_current_ip call: the proxy's reply, and what it returns
  poll,          \* one wait_for_*_up call: its clock, deadline and return value
  timer,         \* auto_rotation_thread, the worker threads, the requests about them
  imei_gen       \* one randomise_imei call: the serial drawn, and the IMEI it builds

vars == <<rotate_lock, in_progress, pc, loc, result, history, clock, appended, cell_ip, iface_up, hw, routes, config, eff, log, reqs, cycles, workload, worker_config, auto_rotation_enabled, stat, ops, modem_imei, original_imei, imei_calls, steps, stop_event, guard, probe, view, poll, timer, imei_gen>>

\* what only the operator's calls change
opvars == <<auto_rotation_enabled, stat, ops>>

\* the modem's identity and its record on disk
imeivars == <<modem_imei, original_imei, imei_calls>>

\* the attempt's step record, and the worker's stop event
finevars == <<steps, stop_event>>

\* the calls that are followed on their own
unitvars == <<guard, probe, view, poll, timer, imei_gen>>

NoGuard == [pc |-> "off", before |-> {}]
NoProbe == [pc |-> "off"]
NoView == [pc |-> "off"]
NoPoll == [pc |-> "off", kind |-> "none", now |-> 0, deadline |-> 0, ret |-> FALSE, seen |-> FALSE]

NoTimer == [pc |-> "off"]
NoGen == [pc |-> "off"]

UnitIdle ==
  /\ guard = NoGuard
  /\ probe = NoProbe
  /\ view = NoView
  /\ poll = NoPoll
  /\ timer = NoTimer
  /\ imei_gen = NoGen

\* ================================================================= history

\* load_ip_history when the file is absent
\* first_seen is None until the first entry; timestamps start at 1
NoTime == 0

EmptyHistory == [ips |-> <<>>, rotations |-> 0, first_seen |-> NoTime]

Entry(ip, now, is_failure) ==
  [ip |-> ip, timestamp |-> now, failed |-> is_failure,
   note |-> IF is_failure THEN "Rotation Failed - Same IP" ELSE ""]

\* history["ips"][-10:]
LastN(s, n) == IF Len(s) > n THEN SubSeq(s, Len(s) - n + 1, Len(s)) ELSE s

TrimMutant(s) == IF Len(s) > HistoryCap THEN SubSeq(s, 1, HistoryCap) ELSE s

Trim(s) == LastN(s, HistoryCap)

ShouldAppendMutant(h, ip, force_add) ==
  force_add \/ h.ips = <<>> \/ h.ips[1].ip # ip

ShouldAppend(h, ip, force_add) ==
  force_add \/ h.ips = <<>> \/ h.ips[Len(h.ips)].ip # ip

UpdateIpHistoryMutant(h, ip, force_add, is_failure, now) ==
  IF ShouldAppend(h, ip, force_add)
  THEN LET ips1 == Append(h.ips, Entry(ip, now, is_failure))
       IN [ips |-> Trim(ips1),
           first_seen |-> IF h.first_seen = NoTime THEN now ELSE h.first_seen,
           rotations |-> IF Len(ips1) > 1 \/ force_add
                         THEN h.rotations + 1 ELSE h.rotations]
  ELSE h

UpdateIpHistory(h, ip, force_add, is_failure, now) ==
  IF ShouldAppend(h, ip, force_add)
  THEN LET ips1 == Append(h.ips, Entry(ip, now, is_failure))
       IN [ips |-> Trim(ips1),
           first_seen |-> IF h.first_seen = NoTime THEN now ELSE h.first_seen,
           rotations |-> IF h.first_seen = NoTime THEN h.rotations
                         ELSE IF Len(ips1) > 1 \/ force_add
                              THEN h.rotations + 1 ELSE h.rotations]
  ELSE h

\* ghost: the entries a call appends
AppendedBy(h, ip, force_add, is_failure, now) ==
  IF ShouldAppend(h, ip, force_add) THEN <<Entry(ip, now, is_failure)>> ELSE <<>>


\* ======================================================= public-IP check

\* ip.startswith('192.168.') or ip.startswith('10.') or ip.startswith('172.')
IsPrivatePrefix(a) == (a[1] = 192 /\ a[2] = 168) \/ a[1] = 10 \/ a[1] = 172

\* What the request through the proxy can come back with: a body (an
\* address, or an empty/short body) or one of the requests exceptions.
Reply(kind, body) == [kind |-> kind, body |-> body]
ProxyReplies(cell) ==
  {Reply("ok", cell), Reply("ok", LanAddr), Reply("ok", <<>>), Reply("timeout", <<>>)}

AnyCellularUp(up) == \E t \in Transports : up[t]

GetCurrentIp(inprog, up, reply) ==
  IF inprog THEN Rotating
  ELSE IF ~AnyCellularUp(up) THEN NoCellular
  ELSE IF reply.kind = "timeout" THEN ProxyTimeout
  ELSE IF reply.kind = "connerr" THEN ProxyNotResponding
  ELSE IF reply.kind = "error" THEN ErrorText
  ELSE IF reply.body = <<>> THEN UnknownProxyFailed
  ELSE IF IsPrivatePrefix(reply.body) THEN LanWarning(reply.body)
  ELSE PublicIp(reply.body)

\* what the post-rotation check returns for a private address or a failure
Sentinels ==
  {NoCellular, UnknownProxyFailed, ProxyTimeout, ProxyNotResponding, ErrorText,
   Unknown, LanWarning(LanAddr)}

\* ============================================================ mode choice

SelectTransport(mode, qmi_iface, rndis_iface) ==
  LET use_qmi == mode = "qmi" \/ (mode = "auto" /\ qmi_iface)
      use_rndis == mode = "rndis" \/ (mode = "auto" /\ ~qmi_iface /\ rndis_iface)
  IN IF use_qmi /\ qmi_iface THEN "qmi"
     ELSE IF use_rndis /\ rndis_iface THEN "rndis"
     ELSE "ppp"

\* ============================================================ default routes

Route(dev, metric) == [dev |-> dev, metric |-> metric]
DevOf(tr) == IF tr = "qmi" THEN "wwan0" ELSE IF tr = "rndis" THEN "enx" ELSE "ppp0"

\* ip route add: fails (File exists) when a default route of that metric exists
RouteAdd(rt, dev, metric) ==
  IF \E r \in rt : r.metric = metric THEN rt ELSE rt \cup {Route(dev, metric)}

\* ip route replace: takes the place of the default route of that metric
RouteReplace(rt, dev, metric) ==
  {r \in rt : r.metric # metric} \cup {Route(dev, metric)}

\* routes go away with their device (link down, pppd killed)
RoutesWithout(rt, dev) == {r \in rt : r.dev # dev}

\* first line of `ip route show default`
FirstDefault(rt) == CHOOSE r \in rt : \A q \in rt : r.metric <= q.metric

\* the "metric N" token is not printed for metric 0
ParsedMetric(r) == IF r.metric = 0 THEN DefaultMetric ELSE r.metric

\* the first half of the guard: re-install the primary route
KeepPrimary(rt) ==
  IF rt # {} /\ FirstDefault(rt).dev # "ppp0"
  THEN RouteReplace(rt, FirstDefault(rt).dev, ParsedMetric(FirstDefault(rt)))
  ELSE rt

EnsurePppDefaultRoute(rt) ==
  IF rt # {} /\ FirstDefault(rt).dev # "ppp0"
  THEN RouteAdd(KeepPrimary(rt), "ppp0", ParsedMetric(FirstDefault(rt)) + PppMetricOffset)
  ELSE RouteAdd(rt, "ppp0", PppFallbackMetric)

\* What bring-up leaves in the routing table.  pppd runs with the
\* `defaultroute` option, which adds a default route via ppp0 only when the
\* host has no default route at all.  dhclient / udhcpc run their default
\* scripts, which may add a default route (no metric, i.e. 0) via the modem's
\* interface.
BringUpRoutes(rt, tr) ==
  IF tr = "ppp"
  THEN {rt, IF rt = {} THEN {Route("ppp0", 0)} ELSE rt}
  ELSE {rt, RouteAdd(rt, DevOf(tr), 0)}

\* ================================================================ threads

IsManual(t) == t \in Handlers
RestPc(t) == IF IsManual(t) THEN "idle" ELSE "waiting"

\* locals of rotate() / of one cycle of auto_rotation_worker
\* (current_ip equals previous_ip throughout the try block)
NoLoc ==
  [token_ok |-> TRUE, previous_ip |-> NoValue, new_ip |-> NoValue, attempt |-> 0,
   max_attempts |-> 0, transport |-> "ppp", deep_enabled |-> FALSE,
   randomise_imei |-> FALSE]

NoResult ==
  [status |-> "none", code |-> 0, attempts |-> 0, public_ip |-> NoValue,
   previous_ip |-> NoValue]

Res(status, code, attempts, public_ip, previous_ip) ==
  [status |-> status, code |-> code, attempts |-> attempts,
   public_ip |-> public_ip, previous_ip |-> previous_ip]

\* ghost: calls made on behalf of the current request
NoEff ==
  [teardowns |-> 0, bringups |-> 0, deep |-> 0, guard |-> 0, hist |-> 0,
   forced |-> 0, notif |-> 0, notif_fail |-> 0, released |-> 0]

\* ghost: how the attempts of the current request went, and the carrier's
\* address when the request started and when it was last verified
NoLog ==
  [raised |-> 0, timed_out |-> 0, verified |-> 0, same |-> 0, last |-> "none",
   start_cell |-> <<>>, seen_cell |-> <<>>, seen_reply |-> "none", waited |-> 0]

\* send_discord_notification(..., is_failure=...)
Notified(e, is_failure) ==
  [e EXCEPT !.notif = @ + 1,
            !.notif_fail = IF is_failure THEN @ + 1 ELSE @]

IsSuccessMutant(new_ip, previous_ip) == new_ip # Unknown

\* new_ip != previous_ip and new_ip != "Unknown"
IsSuccess(new_ip, previous_ip) == new_ip # previous_ip /\ new_ip # Unknown

\* =================================================================== Init

\* no status query is being answered
NoStat == [kind |-> "none", public_ip |-> NoValue, serial |-> FALSE]

\* the operator has done nothing yet
NoOps == [writes |-> 0, toggles |-> 0, queries |-> 0, skips |-> 0]

\* rotation.randomise_imei keeps its default (main.py:537) unless set
Cfg(mode, max_attempts, deep) ==
  [mode |-> mode, max_attempts |-> max_attempts, deep_enabled |-> deep,
   randomise_imei |-> FALSE]

\* the installations explored: which interfaces the modem exposes and what
\* config.yaml says (deep_reset_enabled is only read on the PPP path)
Installations ==
  {i \in (SUBSET {"qmi", "rndis"}) \X Modes \X (0..MaxAttemptsCfg) \X BOOLEAN :
     /\ i[1] \in {{}, {"rndis"}, {"qmi", "rndis"}}
     /\ i[2] = "qmi" => i[1] = {}
     /\ i[2] = "rndis" => i[1] = {"rndis"}
     /\ i[2] = "ppp" => i[1] = {"qmi", "rndis"}
     /\ i[4] => (i[1] = {} /\ i[2] = "auto")}

\* the runs explored: requests only (auto-rotation off), the worker only, and
\* one request racing one scheduled rotation
Workload(requests, sched) == [requests |-> requests, cycles |-> sched]
Workloads == {Workload(MaxRequests, 0), Workload(0, MaxCycles), Workload(1, 1)}
IsMixed(w) == w.requests > 0 /\ w.cycles > 0

\* the transport the setup brought up: QMI, else RNDIS, else PPP
InitialUp(present) ==
  [t \in Transports |-> t = SelectTransport("auto", "qmi" \in present, "rndis" \in present)]

Init ==
  /\ rotate_lock = None
  /\ in_progress = FALSE
  /\ pc = [t \in Threads |-> RestPc(t)]
  /\ loc = [t \in Threads |-> NoLoc]
  /\ result = [t \in Threads |-> NoResult]
  /\ history = EmptyHistory
  /\ clock = 1
  /\ appended = <<>>
  /\ cell_ip = IpA
  /\ \E i \in Installations, w \in Workloads :
       /\ IsMixed(w) => i[3] <= MixedAttempts
       /\ hw = i[1]
       /\ config = Cfg(i[2], i[3], i[4])
       /\ workload = w
  /\ iface_up = InitialUp(hw)
  /\ routes = {Route("lan", DefaultMetric)}
  /\ eff = [t \in Threads |-> NoEff]
  /\ log = [t \in Threads |-> NoLog]
  /\ reqs = 0
  /\ cycles = 0
  /\ worker_config = config
  /\ auto_rotation_enabled = TRUE
  /\ stat = NoStat
  /\ ops = NoOps
  /\ modem_imei = FactoryImei
  /\ original_imei = None
  /\ imei_calls = <<>>
  /\ steps = [t \in Threads |-> <<>>]
  /\ stop_event = FALSE
  /\ UnitIdle


\* ======================================================= POST /rotate entry

LockFreeMutant == TRUE

\* rotate_lock.acquire(blocking=False)
LockFree == rotate_lock = None

Busy == Res("busy", 429, 0, NoValue, NoValue)

\* request threads are interchangeable: a request is served by the first idle one
FirstIdle ==
  IF pc["h1"] = "idle" THEN "h1" ELSE "h2"

\* A request arrives: the non-blocking acquire, and the 429 answer when it
\* fails.
RotateArrive(h) ==
  /\ pc[h] = "idle"
  /\ h = FirstIdle
  /\ reqs < workload.requests
  /\ reqs' = reqs + 1
  /\ IF LockFree
     THEN /\ rotate_lock' = h
          /\ pc' = [pc EXCEPT ![h] = "set_flag"]
          /\ result' = result
     ELSE /\ result' = [result EXCEPT ![h] = Busy]
          /\ pc' = [pc EXCEPT ![h] = "respond"]
          /\ rotate_lock' = rotate_lock
  /\ UNCHANGED <<in_progress, loc, history, clock, appended, cell_ip,
                 iface_up, hw, routes, config, eff, log, cycles, workload, worker_config, opvars, imeivars, finevars, unitvars>>

\* in_progress = True
SetInProgress(h) ==
  /\ pc[h] = "set_flag"
  /\ in_progress' = TRUE
  /\ pc' = [pc EXCEPT ![h] = "begin"]
  /\ UNCHANGED <<rotate_lock, loc, result, history, clock, appended,
                 cell_ip, iface_up, hw, routes, config, eff, log, reqs, cycles, workload, worker_config, opvars, imeivars, finevars, unitvars>>

\* previous_ip, the mode choice and the rotation.* tunables
Started(l, reply, cfg) ==
  [l EXCEPT !.previous_ip = GetCurrentIp(in_progress, iface_up, reply),
            !.attempt = 0,
            !.max_attempts = cfg.max_attempts,
            !.deep_enabled = cfg.deep_enabled,
            !.randomise_imei = cfg.randomise_imei,
            !.transport = SelectTransport(cfg.mode, "qmi" \in hw, "rndis" \in hw)]

\* load_config and the token check (the request carries a bad or a good
\* bearer token), then get_current_ip and the mode choice
Begin(h) ==
  /\ pc[h] = "begin"
  /\ \/ /\ loc' = [loc EXCEPT ![h].token_ok = FALSE]
        /\ pc' = [pc EXCEPT ![h] = "except"]      \* abort(403) inside the try
        /\ log' = log
     \/ /\ \E reply \in ProxyReplies(cell_ip) :
               loc' = [loc EXCEPT ![h] = Started(@, reply, config)]
        /\ log' = [log EXCEPT ![h].start_cell = cell_ip]
        /\ pc' = [pc EXCEPT ![h] = IF config.max_attempts = 0 THEN "finally"
                                   ELSE "teardown"]
  /\ UNCHANGED <<rotate_lock, in_progress, result, history, clock, appended,
                 cell_ip, iface_up, hw, routes, config, eff, reqs, cycles, workload, worker_config, opvars, imeivars, finevars, unitvars>>

\* ================================================ auto_rotation_worker entry

AutoTriggerMutant ==
  /\ pc[AutoWorker] = "waiting"
  /\ ~stop_event
  /\ cycles < workload.cycles
  /\ cycles' = cycles + 1
  /\ \E reply \in ProxyReplies(cell_ip) :
       loc' = [loc EXCEPT ![AutoWorker] = Started(@, reply, worker_config)]
  /\ log' = [log EXCEPT ![AutoWorker].start_cell = cell_ip]
  /\ pc' = [pc EXCEPT ![AutoWorker] = IF worker_config.max_attempts = 0 THEN "done"
                                      ELSE "teardown"]
  /\ UNCHANGED <<rotate_lock, in_progress, result, history, clock, appended,
                 cell_ip, iface_up, hw, routes, config, eff, reqs, workload,
                 worker_config, opvars, imeivars, finevars, unitvars>>

\* the interval has elapsed and the flag is still set: get_current_ip and
\* the mode choice, with the config loaded before the wait; no lock
AutoTrigger ==
  /\ pc[AutoWorker] = "waiting"
  /\ ~stop_event
  /\ auto_rotation_enabled
  /\ cycles < workload.cycles
  /\ cycles' = cycles + 1
  /\ \E reply \in ProxyReplies(cell_ip) :
       loc' = [loc EXCEPT ![AutoWorker] = Started(@, reply, worker_config)]
  /\ log' = [log EXCEPT ![AutoWorker].start_cell = cell_ip]
  /\ pc' = [pc EXCEPT ![AutoWorker] = IF worker_config.max_attempts = 0 THEN "done"
                                      ELSE "teardown"]
  /\ UNCHANGED <<rotate_lock, in_progress, result, history, clock, appended,
                 cell_ip, iface_up, hw, routes, config, eff, reqs, workload, worker_config, opvars, imeivars, finevars, unitvars>>

\* ============================================================ attempt loop

\* where a `return` inside the try (manual) or the end of the cycle (worker) leads
EndPc(t) == IF IsManual(t) THEN "finally" ELSE "done"

DeepResetOnAttemptMutant(t, l) == l.attempt > 0 /\ l.deep_enabled

DeepResetOnAttemptEager(t, l) ==
  \/ l.transport \in {"qmi", "rndis"}
  \/ IsManual(t) /\ l.transport = "ppp" /\ l.deep_enabled

\* teardown_qmi / teardown_rndis always get deep_reset=True; the manual PPP
\* path calls deep_reset_modem from the second attempt on when enabled
DeepResetOnAttempt(t, l) ==
  \/ l.transport \in {"qmi", "rndis"}
  \/ IsManual(t) /\ l.transport = "ppp" /\ l.attempt > 0 /\ l.deep_enabled

\* teardown_qmi's qmicli call has a timeout and nothing catches TimeoutExpired
TeardownMayRaise(l) == l.transport = "qmi"

Teardown(t) ==
  /\ pc[t] = "teardown"
  /\ \/ /\ pc' = [pc EXCEPT ![t] = "bringup"]
        /\ iface_up' = [iface_up EXCEPT ![loc[t].transport] = FALSE]
        /\ routes' = RoutesWithout(routes, DevOf(loc[t].transport))
        /\ eff' = [eff EXCEPT ![t].teardowns = @ + 1,
                              ![t].deep = IF DeepResetOnAttempt(t, loc[t]) THEN @ + 1 ELSE @]
     \/ /\ TeardownMayRaise(loc[t])
        /\ pc' = [pc EXCEPT ![t] = "except"]
        /\ UNCHANGED <<iface_up, routes, eff>>
  /\ UNCHANGED <<rotate_lock, in_progress, loc, result, history, clock, appended, cell_ip, hw, config, log, reqs, cycles, workload, worker_config, opvars, imeivars, finevars, unitvars>>

IsLastAttempt(l) == l.attempt = l.max_attempts - 1

\* only the manual PPP path calls ensure_ppp_default_route
Guarded(t, l) == IsManual(t) /\ l.transport = "ppp"

GuardedRoutes(t, l, rt) == IF Guarded(t, l) THEN EnsurePppDefaultRoute(rt) ELSE rt

Failed(lg, out) ==
  [lg EXCEPT !.raised = IF out = "raise" THEN @ + 1 ELSE @,
             !.timed_out = IF out = "timeout" THEN @ + 1 ELSE @,
             !.last = out]

\* start_* followed by wait_for_*_up (and, for manual PPP, the routing guard)
BringUp(t) ==
  /\ pc[t] = "bringup"
  /\ \E out \in {"raise", "timeout", "ready"} :
       IF out = "ready"
       THEN /\ iface_up' = [iface_up EXCEPT ![loc[t].transport] = TRUE]
            /\ cell_ip' \in CellIPs
            /\ \E rt \in BringUpRoutes(routes, loc[t].transport) :
                 routes' = GuardedRoutes(t, loc[t], rt)
            /\ eff' = [eff EXCEPT ![t].bringups = @ + 1,
                                  ![t].guard = IF Guarded(t, loc[t]) THEN @ + 1 ELSE @]
            /\ pc' = [pc EXCEPT ![t] = "verify"]
            /\ UNCHANGED <<loc, result, log>>
       ELSE /\ log' = [log EXCEPT ![t] = Failed(@, out)]
            /\ IF IsLastAttempt(loc[t])
               THEN /\ eff' = [eff EXCEPT ![t] = Notified([@ EXCEPT !.bringups = @ + 1], TRUE)]
                    /\ result' = [result EXCEPT ![t] =
                         Res("failed", 500, 0, loc[t].previous_ip, loc[t].previous_ip)]
                    /\ pc' = [pc EXCEPT ![t] = EndPc(t)]
                    /\ loc' = loc
               ELSE /\ eff' = [eff EXCEPT ![t].bringups = @ + 1]
                    /\ loc' = [loc EXCEPT ![t].attempt = @ + 1]
                    /\ pc' = [pc EXCEPT ![t] = "teardown"]
                    /\ result' = result
            /\ UNCHANGED <<iface_up, cell_ip, routes>>
  /\ UNCHANGED <<rotate_lock, in_progress, history, clock, appended, hw,
                 config, reqs, cycles, workload, worker_config, opvars, imeivars, finevars, unitvars>>


\* the manual PPP path never calls update_ip_history
RecordsHistory(t, l) == ~(IsManual(t) /\ l.transport = "ppp")

Verified(lg, new_ip, previous_ip, cell, reply) ==
  [lg EXCEPT !.verified = @ + 1,
             !.same = IF new_ip = previous_ip THEN @ + 1 ELSE @,
             !.last = "verified",
             !.seen_cell = cell,
             !.seen_reply = IF reply.kind = "ok" /\ reply.body = cell THEN "ok" ELSE "bad"]

\* get_current_ip, the history update and the success / retry / failure decision
Verify(t) ==
  /\ pc[t] = "verify"
  /\ \E reply \in ProxyReplies(cell_ip) :
       LET l == loc[t]
           new_ip == GetCurrentIp(in_progress, iface_up, reply)
           rec == RecordsHistory(t, l)
           first == rec /\ new_ip # Unknown
           h1 == IF first THEN UpdateIpHistory(history, new_ip, FALSE, FALSE, clock)
                 ELSE history
           a1 == IF first THEN AppendedBy(history, new_ip, FALSE, FALSE, clock) ELSE <<>>
           c1 == clock + Len(a1)
           ok == IsSuccess(new_ip, l.previous_ip)
           giveup == ~ok /\ IsLastAttempt(l)
           h2 == IF giveup /\ rec THEN UpdateIpHistory(h1, new_ip, TRUE, TRUE, c1) ELSE h1
           a2 == IF giveup /\ rec THEN AppendedBy(h1, new_ip, TRUE, TRUE, c1) ELSE <<>>
       IN /\ history' = h2
          /\ appended' = appended \o a1 \o a2
          /\ clock' = c1 + Len(a2)
          /\ log' = [log EXCEPT ![t] = Verified(@, new_ip, l.previous_ip, cell_ip, reply)]
          /\ IF ok
             THEN /\ eff' = [eff EXCEPT ![t] = Notified([@ EXCEPT !.hist = @ + Len(a1)], FALSE)]
                  /\ result' = [result EXCEPT ![t] =
                       Res("success", 200, l.attempt + 1, new_ip, l.previous_ip)]
                  /\ loc' = [loc EXCEPT ![t].new_ip = new_ip]
                  /\ pc' = [pc EXCEPT ![t] = EndPc(t)]
             ELSE IF ~IsLastAttempt(l)
             THEN /\ eff' = [eff EXCEPT ![t].hist = @ + Len(a1)]
                  /\ loc' = [loc EXCEPT ![t].new_ip = new_ip, ![t].attempt = @ + 1]
                  /\ pc' = [pc EXCEPT ![t] = "teardown"]
                  /\ result' = result
             ELSE /\ eff' = [eff EXCEPT ![t] =
                       Notified([@ EXCEPT !.hist = @ + Len(a1) + Len(a2),
                                          !.forced = @ + Len(a2)], TRUE)]
                  /\ result' = [result EXCEPT ![t] =
                       Res("failed", 400, l.max_attempts, new_ip, l.previous_ip)]
                  /\ loc' = [loc EXCEPT ![t].new_ip = new_ip]
                  /\ pc' = [pc EXCEPT ![t] = EndPc(t)]
  /\ UNCHANGED <<rotate_lock, in_progress, cell_ip, iface_up, hw, routes, config,
                 reqs, cycles, workload, worker_config, opvars, imeivars, finevars, unitvars>>

\* except Exception: get_current_ip for the message, notify the failure, 500
Except(t) ==
  /\ pc[t] = "except"
  /\ result' = [result EXCEPT ![t] = Res("failed", 500, 0, NoValue, NoValue)]
  /\ eff' = [eff EXCEPT ![t] = Notified(@, TRUE)]
  /\ log' = [log EXCEPT ![t].last = "exception"]
  /\ pc' = [pc EXCEPT ![t] = EndPc(t)]
  /\ UNCHANGED <<rotate_lock, in_progress, loc, history, clock, appended,
                 cell_ip, iface_up, hw, routes, config, reqs, cycles, workload, worker_config, opvars, imeivars, finevars, unitvars>>

FinallyMutant(h) ==
  /\ pc[h] = "finally"
  /\ pc' = [pc EXCEPT ![h] = "release"]
  /\ UNCHANGED <<rotate_lock, in_progress, loc, result, history, clock, appended, cell_ip,
                 iface_up, hw, routes, config, eff, log, reqs, cycles, workload, worker_config, opvars, imeivars, finevars, unitvars>>

\* finally: in_progress = False
Finally(h) ==
  /\ pc[h] = "finally"
  /\ in_progress' = FALSE
  /\ pc' = [pc EXCEPT ![h] = "release"]
  /\ UNCHANGED <<rotate_lock, loc, result, history, clock, appended, cell_ip,
                 iface_up, hw, routes, config, eff, log, reqs, cycles, workload, worker_config, opvars, imeivars, finevars, unitvars>>

\* a view that fell off the end of the try returns None: no response body
Returned(r) == IF r.status = "none" THEN [r EXCEPT !.status = "noresult", !.code = 500] ELSE r

ReleaseMutant(h) ==
  /\ pc[h] = "release"
  /\ pc' = [pc EXCEPT ![h] = "respond"]
  /\ result' = [result EXCEPT ![h] = Returned(@)]
  /\ UNCHANGED <<rotate_lock, in_progress, loc, history, clock, appended, cell_ip,
                 iface_up, hw, routes, config, eff, log, reqs, cycles, workload, worker_config, opvars, imeivars, finevars, unitvars>>

\* finally: rotate_lock.release(); the return value becomes the response
Release(h) ==
  /\ pc[h] = "release"
  /\ rotate_lock' = None
  /\ eff' = [eff EXCEPT ![h].released = @ + 1]
  /\ pc' = [pc EXCEPT ![h] = "respond"]
  /\ result' = [result EXCEPT ![h] = Returned(@)]
  /\ UNCHANGED <<in_progress, loc, history, clock, appended, cell_ip,
                 iface_up, hw, routes, config, log, reqs, cycles, workload, worker_config, opvars, imeivars, finevars, unitvars>>

\* the response has gone out; the handler's locals are gone
Respond(h) ==
  /\ pc[h] = "respond"
  /\ pc' = [pc EXCEPT ![h] = "idle"]
  /\ loc' = [loc EXCEPT ![h] = NoLoc]
  /\ result' = [result EXCEPT ![h] = NoResult]
  /\ eff' = [eff EXCEPT ![h] = NoEff]
  /\ log' = [log EXCEPT ![h] = NoLog]
  /\ steps' = [steps EXCEPT ![h] = <<>>]
  /\ UNCHANGED <<rotate_lock, in_progress, history, clock, appended, cell_ip,
                 iface_up, hw, routes, config, reqs, cycles, workload, worker_config, opvars, imeivars, stop_event, unitvars>>

\* top of the worker's loop: load_config, then the interval wait when the
\* flag is set and the 60 s sleep when it is not
LoopTop ==
  IF stop_event THEN "stopped"
  ELSE IF auto_rotation_enabled THEN "waiting" ELSE "paused"

\* the worker goes back to the top of its loop
AutoSleep ==
  /\ pc[AutoWorker] = "done"
  /\ pc' = [pc EXCEPT ![AutoWorker] = LoopTop]
  /\ worker_config' = config
  /\ loc' = [loc EXCEPT ![AutoWorker] = NoLoc]
  /\ result' = [result EXCEPT ![AutoWorker] = NoResult]
  /\ eff' = [eff EXCEPT ![AutoWorker] = NoEff]
  /\ log' = [log EXCEPT ![AutoWorker] = NoLog]
  /\ steps' = [steps EXCEPT ![AutoWorker] = <<>>]
  /\ UNCHANGED <<rotate_lock, in_progress, history, clock, appended, cell_ip,
                 iface_up, hw, routes, config, reqs, cycles, workload, opvars, imeivars, stop_event, unitvars>>

Next ==
  \/ \E h \in Handlers : RotateArrive(h)
  \/ \E h \in Handlers : SetInProgress(h)
  \/ \E h \in Handlers : Begin(h)
  \/ AutoTrigger
  \/ \E t \in Threads : Teardown(t)
  \/ \E t \in Threads : BringUp(t)
  \/ \E t \in Threads : Verify(t)
  \/ \E t \in Threads : Except(t)
  \/ \E h \in Handlers : Finally(h)
  \/ \E h \in Handlers : Release(h)
  \/ \E h \in Handlers : Respond(h)
  \/ AutoSleep

Spec == Init /\ [][Next]_vars

\* ==================================================================== IMEI

\* get_original_imei: the file's text, None when the file is absent
GetOriginalImei(file) == file

\* save_original_imei: writes only a 15-digit IMEI
SaveOriginalImei(file, imei) ==
  IF imei # ImeiUnknown /\ imei \in Imeis THEN imei ELSE file

\* what at("AT+GSN") / at("AT+CGSN") can yield: the modem's IMEI, or nothing
\* usable (no control device, no answer, an exception)
ImeiReads(imei) == {imei, ImeiUnknown}

\* get_current_imei's effect on the file: the IMEI just read is saved as the
\* original when none is recorded yet
RecordedByRead(file, line) ==
  IF line # ImeiUnknown /\ GetOriginalImei(file) = None
  THEN SaveOriginalImei(file, line)
  ELSE file

\* get_current_imei, as GET /status/detailed calls it
GetCurrentImei ==
  /\ Len(imei_calls) < MaxImeiCalls
  /\ \E line \in ImeiReads(modem_imei) :
       original_imei' = RecordedByRead(original_imei, line)
  /\ imei_calls' = Append(imei_calls, "get_current_imei")
  /\ UNCHANGED <<rotate_lock, in_progress, pc, loc, result, history, clock, appended,
                 cell_ip, iface_up, hw, routes, config, eff, log, reqs, cycles,
                 workload, worker_config, opvars, modem_imei, finevars, unitvars>>

\* randomise_imei, as the deep resets call it with rotation.randomise_imei
\* set: AT+EGMR answers OK and the modem reboots with the new IMEI, or the
\* command is refused and nothing changes; the file is not touched
RandomiseImei ==
  /\ Len(imei_calls) < MaxImeiCalls
  /\ \/ modem_imei' \in RandomImeis
     \/ modem_imei' = modem_imei
  /\ imei_calls' = Append(imei_calls, "randomise_imei")
  /\ UNCHANGED <<rotate_lock, in_progress, pc, loc, result, history, clock, appended,
                 cell_ip, iface_up, hw, routes, config, eff, log, reqs, cycles,
                 workload, worker_config, opvars, original_imei, finevars, unitvars>>

\* ====================================================== operator's calls

\* the edits of config.yaml explored: one more attempt (rotation.max_attempts)
\* or PPP forced (modem.mode)
ConfigWrites(c) ==
  {[c EXCEPT !.max_attempts = @ + 1], [c EXCEPT !.mode = "ppp"]} \ {c}

\* config.yaml is edited; nothing in the process is told
ConfigWrite ==
  /\ ops.writes < MaxWrites
  /\ config' \in ConfigWrites(config)
  /\ ops' = [ops EXCEPT !.writes = @ + 1]
  /\ UNCHANGED <<rotate_lock, in_progress, pc, loc, result, history, clock, appended,
                 cell_ip, iface_up, hw, routes, eff, log, reqs, cycles, workload,
                 worker_config, auto_rotation_enabled, stat, imeivars, finevars, unitvars>>

\* POST /auto-rotation/enable and /auto-rotation/disable: set_auto_rotation_enabled
\* (a call that repeats the flag's value changes nothing and is left out)
SetAutoRotationEnabled(enabled) ==
  /\ ops.toggles < MaxToggles
  /\ enabled # auto_rotation_enabled
  /\ auto_rotation_enabled' = enabled
  /\ ops' = [ops EXCEPT !.toggles = @ + 1]
  /\ UNCHANGED <<rotate_lock, in_progress, pc, loc, result, history, clock, appended,
                 cell_ip, iface_up, hw, routes, config, eff, log, reqs, cycles,
                 workload, worker_config, stat, imeivars, finevars, unitvars>>

\* the interval wait ends with the flag cleared, or is cut short by the stop
\* event: no rotation, back to the top (or out of the loop)
AutoSkip ==
  /\ pc[AutoWorker] = "waiting"
  /\ stop_event \/ ~auto_rotation_enabled
  /\ pc' = [pc EXCEPT ![AutoWorker] = LoopTop]
  /\ worker_config' = config
  /\ ops' = [ops EXCEPT !.skips = @ + 1]
  /\ UNCHANGED <<rotate_lock, in_progress, loc, result, history, clock, appended,
                 cell_ip, iface_up, hw, routes, config, eff, log, reqs, cycles,
                 workload, auto_rotation_enabled, stat, imeivars, finevars, unitvars>>

\* the 60 s sleep of a disabled worker ends: back to the top
AutoRecheck ==
  /\ pc[AutoWorker] = "paused"
  /\ pc' = [pc EXCEPT ![AutoWorker] = LoopTop]
  /\ worker_config' = config
  /\ UNCHANGED <<rotate_lock, in_progress, loc, result, history, clock, appended,
                 cell_ip, iface_up, hw, routes, config, eff, log, reqs, cycles,
                 workload, opvars, imeivars, finevars, unitvars>>

\* GET /status skips the AT command and the IMEI reads; GET /status/detailed
\* runs at('AT+CGPADDR') and get_current_imei; both call get_current_ip
OpensSerial(kind) == kind = "detailed"

StatusQuery ==
  /\ stat = NoStat
  /\ ops.queries < MaxQueries
  /\ \E kind \in {"fast", "detailed"}, reply \in ProxyReplies(cell_ip) :
       /\ stat' = [kind |-> kind,
                   public_ip |-> GetCurrentIp(in_progress, iface_up, reply),
                   serial |-> OpensSerial(kind)]
       /\ IF OpensSerial(kind)
          THEN \E line \in ImeiReads(modem_imei) :
                 original_imei' = RecordedByRead(original_imei, line)
          ELSE original_imei' = original_imei
  /\ ops' = [ops EXCEPT !.queries = @ + 1]
  /\ UNCHANGED <<rotate_lock, in_progress, pc, loc, result, history, clock, appended,
                 cell_ip, iface_up, hw, routes, config, eff, log, reqs, cycles,
                 workload, worker_config, auto_rotation_enabled, modem_imei, imei_calls, finevars, unitvars>>

\* the status response has gone out
StatusRespond ==
  /\ stat # NoStat
  /\ stat' = NoStat
  /\ UNCHANGED <<rotate_lock, in_progress, pc, loc, result, history, clock, appended,
                 cell_ip, iface_up, hw, routes, config, eff, log, reqs, cycles,
                 workload, worker_config, auto_rotation_enabled, ops, imeivars, finevars, unitvars>>

\* ------------------------------------------- status queries and rotations

\* one request racing one scheduled rotation, single attempt, while the
\* operator asks for the status
InitStatus ==
  /\ Init
  /\ IsMixed(workload)
  /\ config = Cfg("auto", 1, FALSE)

NextStatus ==
  \/ Next
  \/ StatusQuery
  \/ StatusRespond

SpecStatus == InitStatus /\ [][NextStatus]_vars

\* ---------------------------------------------- the worker and its operator

\* the worker alone, up to its first scheduled rotation (single attempt),
\* while the operator edits the config and switches the flag
InitAuto ==
  /\ rotate_lock = None
  /\ in_progress = FALSE
  /\ pc = [t \in Threads |-> RestPc(t)]
  /\ loc = [t \in Threads |-> NoLoc]
  /\ result = [t \in Threads |-> NoResult]
  /\ history = EmptyHistory
  /\ clock = 1
  /\ appended = <<>>
  /\ cell_ip = IpA
  /\ hw \in {{}, {"rndis"}, {"qmi", "rndis"}}
  /\ config = Cfg("auto", 1, FALSE)
  /\ workload = Workload(0, 1)
  /\ iface_up = InitialUp(hw)
  /\ routes = {Route("lan", DefaultMetric)}
  /\ eff = [t \in Threads |-> NoEff]
  /\ log = [t \in Threads |-> NoLog]
  /\ reqs = 0
  /\ cycles = 0
  /\ worker_config = config
  /\ auto_rotation_enabled = TRUE
  /\ stat = NoStat
  /\ ops = NoOps
  /\ modem_imei = FactoryImei
  /\ original_imei = None
  /\ imei_calls = <<>>
  /\ steps = [t \in Threads |-> <<>>]
  /\ stop_event = FALSE
  /\ UnitIdle

NextAuto ==
  \/ AutoTrigger
  \/ Teardown(AutoWorker)
  \/ BringUp(AutoWorker)
  \/ Verify(AutoWorker)
  \/ Except(AutoWorker)
  \/ AutoSleep
  \/ AutoSkip
  \/ AutoRecheck
  \/ ConfigWrite
  \/ \E enabled \in BOOLEAN : SetAutoRotationEnabled(enabled)

\* the worker is a live thread: its sleeps and its subprocess calls end
WorkerRuns ==
  /\ WF_vars(AutoTrigger)
  /\ WF_vars(Teardown(AutoWorker))
  /\ WF_vars(BringUp(AutoWorker))
  /\ WF_vars(Verify(AutoWorker))
  /\ WF_vars(Except(AutoWorker))
  /\ WF_vars(AutoSleep)
  /\ WF_vars(AutoSkip)
  /\ WF_vars(AutoRecheck)

SpecAuto == InitAuto /\ [][NextAuto]_vars /\ WorkerRuns

\* ==================================================== one attempt, call by call

\* the teardown's interface probe: PPP has none; on QMI and RNDIS it finds the
\* interface, or nothing when the ip tool fails
ProbeOutcomes(tr) == IF tr = "ppp" THEN {TRUE} ELSE {TRUE, FALSE}

AfterTeardownMutant(t, l, applied) ==
  IF DeepResetOnAttempt(t, l) THEN "deep" ELSE "start"

AfterTeardownStopping(t, l, applied) ==
  IF stop_event /\ ~IsManual(t) THEN "done"
  ELSE IF applied /\ DeepResetOnAttempt(t, l) THEN "deep" ELSE "start"

\* teardown_qmi / teardown_rndis reset the modem only inside `if iface:`, after
\* the link is down; the manual PPP path calls deep_reset_modem after teardown_ppp
AfterTeardown(t, l, applied) ==
  IF applied /\ DeepResetOnAttempt(t, l) THEN "deep" ELSE "start"

\* teardown_qmi / teardown_rndis / teardown_ppp up to the interface being down
TeardownCall(t) ==
  /\ pc[t] = "teardown"
  /\ \/ \E applied \in ProbeOutcomes(loc[t].transport) :
          /\ pc' = [pc EXCEPT ![t] = AfterTeardown(t, loc[t], applied)]
          /\ IF applied
             THEN /\ iface_up' = [iface_up EXCEPT ![loc[t].transport] = FALSE]
                  /\ routes' = RoutesWithout(routes, DevOf(loc[t].transport))
                  /\ eff' = [eff EXCEPT ![t].teardowns = @ + 1]
                  /\ steps' = [steps EXCEPT ![t] = <<"teardown">>]
             ELSE /\ steps' = [steps EXCEPT ![t] = <<"teardown_skipped">>]
                  /\ UNCHANGED <<iface_up, routes, eff>>
     \/ /\ TeardownMayRaise(loc[t])
        /\ pc' = [pc EXCEPT ![t] = "except"]
        /\ steps' = [steps EXCEPT ![t] = <<"teardown_raised">>]
        /\ UNCHANGED <<iface_up, routes, eff>>
  /\ UNCHANGED <<rotate_lock, in_progress, loc, result, history, clock, appended,
                 cell_ip, hw, config, log, reqs, cycles, workload, worker_config,
                 opvars, imeivars, stop_event, unitvars>>

\* randomise_imei is called first by deep_reset_qmi_modem and by
\* smart_ip_rotation_rndis_modem when rotation.randomise_imei is set;
\* deep_reset_modem (PPP) never calls it
Randomises(l) == l.randomise_imei /\ l.transport \in {"qmi", "rndis"}

\* how randomise_imei can end: True, or False because the modem answers ERROR
\* (or no OK), no control device exists, or the serial port raises
ImeiOutcomes == {"changed", "rejected", "no_device", "serial_error"}

\* how the reset proper can end: the AT / mmcli sequence ran, or the port was
\* missing or raised (caught inside the function)
RadioOutcomes == {"radio_cycle", "radio_unavailable"}

GoesOnAfterImeiMutant(out) == out = "changed"

\* `if randomise_imei(): ... else: print(...)`: both branches fall through to
\* the reset proper
GoesOnAfterImei(out) == TRUE

ImeiStep(out) == IF out = "changed" THEN "imei_changed" ELSE "imei_failed"

\* deep_reset_qmi_modem; smart_ip_rotation_rndis_modem, then
\* deep_reset_rndis_modem if it failed; deep_reset_modem
DeepResetCall(t) ==
  /\ pc[t] = "deep"
  /\ IF Randomises(loc[t])
     THEN \E out \in ImeiOutcomes, radio \in RadioOutcomes :
            /\ IF out = "changed" THEN modem_imei' \in RandomImeis
                                  ELSE modem_imei' = modem_imei
            /\ steps' = [steps EXCEPT ![t] =
                 @ \o <<"deep_reset", ImeiStep(out)>>
                   \o (IF GoesOnAfterImei(out) THEN <<radio>> ELSE <<>>)]
     ELSE \E radio \in RadioOutcomes :
            /\ modem_imei' = modem_imei
            /\ steps' = [steps EXCEPT ![t] = @ \o <<"deep_reset", radio>>]
  /\ eff' = [eff EXCEPT ![t].deep = @ + 1]
  /\ pc' = [pc EXCEPT ![t] = "start"]
  /\ UNCHANGED <<rotate_lock, in_progress, loc, result, history, clock, appended,
                 cell_ip, iface_up, hw, routes, config, log, reqs, cycles, workload,
                 worker_config, opvars, original_imei, imei_calls, stop_event, unitvars>>

\* `if attempt == max_attempts - 1: notify, return failed` else `continue`
GiveUpOrRetry(t, out, e) ==
  /\ log' = [log EXCEPT ![t] = Failed(@, out)]
  /\ IF IsLastAttempt(loc[t])
     THEN /\ eff' = [eff EXCEPT ![t] = Notified(e, TRUE)]
          /\ result' = [result EXCEPT ![t] =
               Res("failed", 500, 0, loc[t].previous_ip, loc[t].previous_ip)]
          /\ pc' = [pc EXCEPT ![t] = EndPc(t)]
          /\ loc' = loc
     ELSE /\ eff' = [eff EXCEPT ![t] = e]
          /\ loc' = [loc EXCEPT ![t].attempt = @ + 1]
          /\ pc' = [pc EXCEPT ![t] = "teardown"]
          /\ result' = result

\* ppp_restart_wait's default, and the floor of the extra wait of later
\* attempts: extra = max(30, restart_wait)
PppRestartWait == 60
ExtraWaitFloor == 30

\* total_wait: restart_wait, plus the extra on later attempts of manual PPP
TotalWait(t, l) ==
  PppRestartWait +
    (IF IsManual(t) /\ l.transport = "ppp" /\ l.attempt > 0
     THEN (IF PppRestartWait > ExtraWaitFloor THEN PppRestartWait ELSE ExtraWaitFloor)
     ELSE 0)

\* start_qmi / start_rndis / start_ppp inside the try, then total_wait
StartCall(t) ==
  /\ pc[t] = "start"
  /\ steps' = [steps EXCEPT ![t] = Append(@, "bringup")]
  /\ \/ /\ pc' = [pc EXCEPT ![t] = "wait"]
        /\ eff' = [eff EXCEPT ![t].bringups = @ + 1]
        /\ log' = [log EXCEPT ![t].waited = TotalWait(t, loc[t])]
        /\ UNCHANGED <<loc, result>>
     \/ GiveUpOrRetry(t, "raise", [eff[t] EXCEPT !.bringups = @ + 1])
  /\ UNCHANGED <<rotate_lock, in_progress, history, clock, appended, cell_ip,
                 iface_up, hw, routes, config, reqs, cycles, workload, worker_config,
                 opvars, imeivars, stop_event, unitvars>>

\* wait_for_qmi_up / wait_for_rndis_up / wait_for_ppp_up (and, for manual PPP,
\* the routing guard that follows)
WaitCall(t) ==
  /\ pc[t] = "wait"
  /\ \/ /\ iface_up' = [iface_up EXCEPT ![loc[t].transport] = TRUE]
        /\ cell_ip' \in CellIPs
        /\ \E rt \in BringUpRoutes(routes, loc[t].transport) :
             routes' = GuardedRoutes(t, loc[t], rt)
        /\ eff' = [eff EXCEPT ![t].guard = IF Guarded(t, loc[t]) THEN @ + 1 ELSE @]
        /\ steps' = [steps EXCEPT ![t] = Append(@, "ready")]
        /\ pc' = [pc EXCEPT ![t] = "verify"]
        /\ UNCHANGED <<loc, result, log>>
     \/ /\ GiveUpOrRetry(t, "timeout", eff[t])
        /\ steps' = [steps EXCEPT ![t] = Append(@, "timeout")]
        /\ UNCHANGED <<iface_up, cell_ip, routes>>
  /\ UNCHANGED <<rotate_lock, in_progress, history, clock, appended, hw, config,
                 reqs, cycles, workload, worker_config, opvars, imeivars, stop_event, unitvars>>

\* POST /auto-rotation/restart: stop_auto_rotation sets the event and joins
\* for 5 s; start_auto_rotation clears it and starts a thread only when the
\* old one has exited, which a worker in its interval wait does within 1 s
WorkerExitsInTime == pc[AutoWorker] \in {"waiting", "stopped"}

AutoRotationRestart ==
  /\ IF WorkerExitsInTime
     THEN /\ stop_event' = FALSE
          /\ pc' = [pc EXCEPT ![AutoWorker] =
               IF auto_rotation_enabled THEN "waiting" ELSE "paused"]
          /\ worker_config' = config
     ELSE /\ stop_event' = TRUE
          /\ UNCHANGED <<pc, worker_config>>
  /\ UNCHANGED <<rotate_lock, in_progress, loc, result, history, clock, appended,
                 cell_ip, iface_up, hw, routes, config, eff, log, reqs, cycles,
                 workload, opvars, imeivars, steps, unitvars>>

\* one installation, two attempts, one request or one scheduled rotation
InitSteps ==
  /\ rotate_lock = None
  /\ in_progress = FALSE
  /\ pc = [t \in Threads |-> RestPc(t)]
  /\ loc = [t \in Threads |-> NoLoc]
  /\ result = [t \in Threads |-> NoResult]
  /\ history = EmptyHistory
  /\ clock = 1
  /\ appended = <<>>
  /\ cell_ip = IpA
  /\ hw \in {{}, {"rndis"}, {"qmi", "rndis"}}
  /\ \E deep \in BOOLEAN, rnd \in BOOLEAN :
       /\ deep => hw = {}            \* deep_reset_enabled is read on PPP only
       /\ rnd => hw # {}             \* randomise_imei on QMI and RNDIS only
       /\ config = [Cfg("auto", 2, deep) EXCEPT !.randomise_imei = rnd]
  /\ workload \in {Workload(1, 0), Workload(0, 1)}
  /\ iface_up = InitialUp(hw)
  /\ routes = {Route("lan", DefaultMetric)}
  /\ eff = [t \in Threads |-> NoEff]
  /\ log = [t \in Threads |-> NoLog]
  /\ reqs = 0
  /\ cycles = 0
  /\ worker_config = config
  /\ auto_rotation_enabled = TRUE
  /\ stat = NoStat
  /\ ops = NoOps
  /\ modem_imei = FactoryImei
  /\ original_imei = None
  /\ imei_calls = <<>>
  /\ steps = [t \in Threads |-> <<>>]
  /\ stop_event = FALSE
  /\ UnitIdle

\* the operator's requests explored here arrive while an attempt is under way
Meanwhile == \E t \in Threads : pc[t] \in {"teardown", "deep", "start", "wait", "verify"}

NextSteps ==
  \/ \E h \in Handlers : RotateArrive(h)
  \/ \E h \in Handlers : SetInProgress(h)
  \/ \E h \in Handlers : Begin(h)
  \/ AutoTrigger
  \/ \E t \in Threads : TeardownCall(t)
  \/ \E t \in Threads : DeepResetCall(t)
  \/ \E t \in Threads : StartCall(t)
  \/ \E t \in Threads : WaitCall(t)
  \/ \E t \in Threads : Verify(t)
  \/ \E t \in Threads : Except(t)
  \/ \E h \in Handlers : Finally(h)
  \/ \E h \in Handlers : Release(h)
  \/ \E h \in Handlers : Respond(h)
  \/ AutoSleep
  \/ AutoSkip
  \/ AutoRecheck
  \/ Meanwhile /\ \E enabled \in BOOLEAN : SetAutoRotationEnabled(enabled)
  \/ Meanwhile /\ AutoRotationRestart

\* a rotation's thread keeps running: its sleeps and subprocess calls end
RotationRuns ==
  \A t \in Threads :
    /\ WF_vars(TeardownCall(t))
    /\ WF_vars(DeepResetCall(t))
    /\ WF_vars(StartCall(t))
    /\ WF_vars(WaitCall(t))
    /\ WF_vars(Verify(t))
    /\ WF_vars(Except(t))

SpecSteps == InitSteps /\ [][NextSteps]_vars /\ RotationRuns

\* ============================================== update_ip_history on its own

HistIps == {PublicIp(IpA), PublicIp(IpB)}

InitHist ==
  /\ rotate_lock = None
  /\ in_progress = FALSE
  /\ pc = [t \in Threads |-> RestPc(t)]
  /\ loc = [t \in Threads |-> NoLoc]
  /\ result = [t \in Threads |-> NoResult]
  /\ history = EmptyHistory
  /\ clock = 1
  /\ appended = <<>>
  /\ cell_ip = IpA
  /\ hw = {}
  /\ config = Cfg("auto", MaxAttemptsCfg, FALSE)
  /\ workload = Workload(0, 0)
  /\ iface_up = InitialUp(hw)
  /\ routes = {Route("lan", DefaultMetric)}
  /\ eff = [t \in Threads |-> NoEff]
  /\ log = [t \in Threads |-> NoLog]
  /\ reqs = 0
  /\ cycles = 0
  /\ worker_config = config
  /\ auto_rotation_enabled = TRUE
  /\ stat = NoStat
  /\ ops = NoOps
  /\ modem_imei = FactoryImei
  /\ original_imei = None
  /\ imei_calls = <<>>
  /\ steps = [t \in Threads |-> <<>>]
  /\ stop_event = FALSE
  /\ UnitIdle

\* one call, as the rotation code makes them: update_ip_history(ip) or
\* update_ip_history(ip, force_add=True, is_failure=True)
HistCall ==
  /\ Len(appended) < MaxAppends
  /\ \E ip \in HistIps, forced \in BOOLEAN :
       /\ history' = UpdateIpHistory(history, ip, forced, forced, clock)
       /\ appended' = appended \o AppendedBy(history, ip, forced, forced, clock)
  /\ clock' = clock + (Len(appended') - Len(appended))
  /\ UNCHANGED <<rotate_lock, in_progress, pc, loc, result, cell_ip, iface_up, hw,
                 routes, config, eff, log, reqs, cycles, workload, worker_config, opvars, imeivars, finevars, unitvars>>

NextHist == HistCall

SpecHist == InitHist /\ [][NextHist]_vars

\* ------------------------------------------------ the IMEI calls on their own

NextImei ==
  \/ GetCurrentImei
  \/ RandomiseImei

SpecImei == InitHist /\ [][NextImei]_vars


\* ------------------------------------------- single calls on a host at rest

\* no rotation running, nothing recorded yet
HostAtRest ==
  /\ rotate_lock = None
  /\ in_progress = FALSE
  /\ pc = [t \in Threads |-> RestPc(t)]
  /\ loc = [t \in Threads |-> NoLoc]
  /\ result = [t \in Threads |-> NoResult]
  /\ history = EmptyHistory
  /\ clock = 1
  /\ appended = <<>>
  /\ cell_ip = IpA
  /\ config = Cfg("auto", MaxAttemptsCfg, FALSE)
  /\ workload = Workload(0, 0)
  /\ eff = [t \in Threads |-> NoEff]
  /\ log = [t \in Threads |-> NoLog]
  /\ reqs = 0
  /\ cycles = 0
  /\ worker_config = config
  /\ auto_rotation_enabled = TRUE
  /\ stat = NoStat
  /\ ops = NoOps
  /\ modem_imei = FactoryImei
  /\ original_imei = None
  /\ imei_calls = <<>>
  /\ steps = [t \in Threads |-> <<>>]
  /\ stop_event = FALSE

restvars == <<rotate_lock, in_progress, pc, loc, result, history, clock, appended,
              cell_ip, config, workload, eff, log, reqs, cycles, worker_config,
              opvars, imeivars, finevars>>

\* ------------------------------------------- ensure_ppp_default_route alone

\* metrics a default route is found with: none printed (0), the one
\* NetworkManager gives wired ethernet, the guard's own fallback
RouteMetrics == {0, DefaultMetric, PppFallbackMetric}
RouteDevs == {"lan", "wwan0", "ppp0"}

\* the kernel keeps one default route per metric
RouteTables ==
  {rt \in SUBSET {Route(d, m) : d \in RouteDevs, m \in RouteMetrics} :
     \A r, q \in rt : r.metric = q.metric => r = q}

InitRoute ==
  /\ HostAtRest
  /\ hw = {"qmi", "rndis"}
  /\ iface_up = InitialUp(hw)
  /\ routes \in RouteTables
  /\ UnitIdle

\* ip route replace default via <gw> dev <dev> metric <metric>
GuardReplace ==
  /\ guard.pc = "off"
  /\ guard' = [pc |-> "replaced", before |-> routes]
  /\ routes' = KeepPrimary(routes)
  /\ UNCHANGED <<restvars, hw, iface_up, probe, view, poll, timer, imei_gen>>

\* ip route add default dev ppp0 metric <metric + 500>, or metric 600
GuardAddPpp ==
  /\ guard.pc = "replaced"
  /\ guard' = [guard EXCEPT !.pc = "added"]
  /\ routes' = EnsurePppDefaultRoute(guard.before)
  /\ UNCHANGED <<restvars, hw, iface_up, probe, view, poll, timer, imei_gen>>

GuardReturn ==
  /\ guard.pc = "added"
  /\ guard' = NoGuard
  /\ UNCHANGED <<restvars, hw, iface_up, routes, probe, view, poll, timer, imei_gen>>

NextRoute ==
  \/ GuardReplace
  \/ GuardAddPpp
  \/ GuardReturn

SpecRoute == InitRoute /\ [][NextRoute]_vars


\* -------------------------------------------- detect_*_interface on its own

MaxLinks == 2

\* interface names `ip -br link show` can list; "enx" is enx<mac>
IfaceNames == {"eth0", "wwan0", "enx", "eth1", "usb0"}

\* line.startswith("wwan") / line.startswith("enx") or line.startswith("eth1")
ProbedNames(kind) == IF kind = "qmi" THEN {"wwan0"} ELSE {"enx", "eth1"}

\* line.startswith(("enx", "eth1", "usb0")) at setup time
SetupRndisNames == {"enx", "eth1", "usb0"}

\* what subprocess.run does: exit 0, exit non-zero, TimeoutExpired after 5 s
ToolOutcomes == {"ok", "fail", "timeout"}

Found(iface, has_ip) == [iface |-> iface, has_ip |-> has_ip]
Raised == [iface |-> "raised", has_ip |-> FALSE]

\* except Exception: pass ... return None, False
OnException == Found(None, FALSE)

\* the first listed line that has the prefix
FirstMatch(kind, links) ==
  LET idx == {i \in 1..Len(links) : links[i] \in ProbedNames(kind)}
  IN IF idx = {} THEN None ELSE links[CHOOSE i \in idx : \A j \in idx : i <= j]

DetectInterface(kind, links, with_ip, listing, addr) ==
  IF listing = "timeout" THEN OnException
  ELSE IF listing = "fail" THEN Found(None, FALSE)
  ELSE IF FirstMatch(kind, links) = None THEN Found(None, FALSE)
  ELSE IF addr = "timeout" THEN OnException
  ELSE IF addr = "fail" THEN Found(FirstMatch(kind, links), FALSE)
  ELSE Found(FirstMatch(kind, links), FirstMatch(kind, links) \in with_ip)

\* the interfaces of the host, in listing order, and those with an address
LinkListings ==
  {l \in UNION {[1..n -> IfaceNames] : n \in 0..MaxLinks} :
     \A i, j \in 1..Len(l) : l[i] = l[j] => i = j}

InitProbe ==
  /\ HostAtRest
  /\ hw = {"qmi", "rndis"}
  /\ iface_up = InitialUp(hw)
  /\ routes = {Route("lan", DefaultMetric)}
  /\ guard = NoGuard
  /\ view = NoView
  /\ poll = NoPoll
  /\ timer = NoTimer
  /\ imei_gen = NoGen
  /\ \E kind \in {"qmi", "rndis"}, links \in LinkListings :
       \E with_ip \in SUBSET {links[i] : i \in 1..Len(links)} :
          probe = [pc |-> "off", kind |-> kind, links |-> links, with_ip |-> with_ip,
                   listing |-> None, addr |-> None, result |-> None]

\* one call; the address query runs only for a listed, matching interface
ProbeCall ==
  /\ probe.pc = "off"
  /\ \E listing \in ToolOutcomes :
       \E addr \in IF listing = "ok" /\ FirstMatch(probe.kind, probe.links) # None
                   THEN ToolOutcomes ELSE {None} :
          probe' = [probe EXCEPT !.pc = "returned", !.listing = listing, !.addr = addr,
                      !.result = DetectInterface(probe.kind, probe.links, probe.with_ip,
                                                 listing, addr)]
  /\ UNCHANGED <<restvars, hw, iface_up, routes, guard, view, poll, timer, imei_gen>>

NextProbe == ProbeCall

SpecProbe == InitProbe /\ [][NextProbe]_vars


\* ------------------------------------------------- get_current_ip on its own

\* addresses api.ipify.org can report: inside and just outside 10/8,
\* 172.16/12 and 192.168/16
ViewAddrs == {<<a, b, 1, 1>> : a \in {9, 10, 172, 192}, b \in {15, 16, 31, 32, 168}}

InitView ==
  /\ HostAtRest
  /\ hw = {"qmi", "rndis"}
  /\ iface_up \in [Transports -> BOOLEAN]
  /\ routes = {Route("lan", DefaultMetric)}
  /\ guard = NoGuard
  /\ probe = NoProbe
  /\ poll = NoPoll
  /\ timer = NoTimer
  /\ imei_gen = NoGen
  /\ \E a \in ViewAddrs : view = [pc |-> "off", reply |-> Reply("ok", a), value |-> NoValue]

ViewCall ==
  /\ view.pc = "off"
  /\ view' = [view EXCEPT !.pc = "returned",
                          !.value = GetCurrentIp(in_progress, iface_up, view.reply)]
  /\ UNCHANGED <<restvars, hw, iface_up, routes, guard, probe, poll, timer, imei_gen>>

NextView == ViewCall

SpecView == InitView /\ [][NextView]_vars


\* ------------------------------------------------- wait_for_*_up on its own

MaxTimeout == 6

\* max(5, int(timeout_s)); time.sleep(2); subprocess.run(..., timeout=5)
MinWait == 5
PollPause == 2
ProbeTimeout == 5

\* what `ip -br link show` lists on this host, and which of it has an address
HostLinks(present) ==
  <<"eth0">> \o (IF "qmi" \in present THEN <<"wwan0">> ELSE <<>>)
             \o (IF "rndis" \in present THEN <<"enx">> ELSE <<>>)
WithAddress(up) == {DevOf(t) : t \in {u \in Transports : up[u]}}

\* wait_for_ppp_up runs `ip -4 addr show ppp0` without a timeout: the call
\* returns when the tool exits, if it does
PppToolOutcomes == {"ok", "fail", "hang"}

InitPoll ==
  /\ HostAtRest
  /\ hw = {"qmi", "rndis"}
  /\ iface_up = [t \in Transports |-> FALSE]
  /\ routes = {Route("lan", DefaultMetric)}
  /\ UnitIdle

\* deadline = time.time() + max(5, int(timeout_s))
PollEnter ==
  /\ poll.pc = "off"
  /\ \E kind \in Transports, timeout_s \in 0..MaxTimeout :
       poll' = [poll EXCEPT !.pc = "check", !.kind = kind,
                  !.deadline = poll.now + (IF timeout_s > MinWait THEN timeout_s ELSE MinWait)]
  /\ UNCHANGED <<restvars, hw, iface_up, routes, guard, probe, view, timer, imei_gen>>

\* while time.time() < deadline: ... return False
PollCheck ==
  /\ poll.pc = "check"
  /\ poll' = IF poll.now < poll.deadline
             THEN [poll EXCEPT !.pc = "probe"]
             ELSE [poll EXCEPT !.pc = "done", !.ret = FALSE]
  /\ UNCHANGED <<restvars, hw, iface_up, routes, guard, probe, view, timer, imei_gen>>

\* iface, has_ip = detect_*_interface(); if iface and has_ip: return True
PollDetect ==
  /\ poll.kind \in {"qmi", "rndis"}
  /\ \E listing \in ToolOutcomes, addr \in ToolOutcomes :
       LET found == DetectInterface(poll.kind, HostLinks(hw), WithAddress(iface_up),
                                    listing, addr)
           took == IF listing = "timeout" \/ (listing = "ok" /\ addr = "timeout")
                   THEN ProbeTimeout ELSE 0
           saw == listing = "ok" /\ addr = "ok" /\ iface_up[poll.kind]
       IN poll' = IF found.iface # None /\ found.has_ip
                  THEN [poll EXCEPT !.pc = "done", !.ret = TRUE, !.seen = @ \/ saw,
                                    !.now = @ + took]
                  ELSE [poll EXCEPT !.pc = "sleep", !.seen = @ \/ saw, !.now = @ + took]

\* r = subprocess.run([IP_PATH, "-4", "addr", "show", "ppp0"], ...)
\* if r.returncode == 0 and "inet " in r.stdout: return True
PollPpp ==
  /\ poll.kind = "ppp"
  /\ \E out \in PppToolOutcomes :
       poll' = IF out = "hang" THEN [poll EXCEPT !.pc = "blocked"]
               ELSE IF out = "ok" /\ iface_up["ppp"]
               THEN [poll EXCEPT !.pc = "done", !.ret = TRUE, !.seen = TRUE]
               ELSE [poll EXCEPT !.pc = "sleep"]

PollProbe ==
  /\ poll.pc = "probe"
  /\ PollDetect \/ PollPpp
  /\ UNCHANGED <<restvars, hw, iface_up, routes, guard, probe, view, timer, imei_gen>>

\* time.sleep(2)
PollSleep ==
  /\ poll.pc = "sleep"
  /\ poll' = [poll EXCEPT !.pc = "check", !.now = @ + PollPause]
  /\ UNCHANGED <<restvars, hw, iface_up, routes, guard, probe, view, timer, imei_gen>>

\* the bring-up that was started gets its address while the poll runs
IfaceComesUp ==
  /\ poll.pc \in {"check", "probe", "sleep"}
  /\ ~iface_up[poll.kind]
  /\ iface_up' = [iface_up EXCEPT ![poll.kind] = TRUE]
  /\ UNCHANGED <<restvars, hw, routes, unitvars>>

NextPoll ==
  \/ PollEnter
  \/ PollCheck
  \/ PollProbe
  \/ PollSleep
  \/ IfaceComesUp

\* the calling thread keeps running
PollRuns == WF_vars(PollCheck) /\ WF_vars(PollProbe) /\ WF_vars(PollSleep)

SpecPoll == InitPoll /\ [][NextPoll]_vars /\ PollRuns


\* --------------------------------- the auto-rotation thread and its endpoints

MaxWorkers == 3
MaxOpRequests == 3

\* config['api']['token'] and the Authorization headers tried against it
ApiToken == <<"k1", "k2">>
GoodHeader == <<"Bearer">> \o ApiToken
Headers ==
  {<<>>, GoodHeader, <<"Bearer", "k1">>, <<"Bearer", "k2", "k1">>,
   <<"Bearer", "k1", "k2", "x">>}

\* Python's `needle in hay` on strings
Contains(needle, hay) ==
  \E i \in 0..(Len(hay) - Len(needle)) : SubSeq(hay, i + 1, i + Len(needle)) = needle

TokenAcceptedMutant(header) == TRUE

\* `if expected not in token: abort(403)`
TokenAccepted(header) == Contains(ApiToken, header)

\* the main thread, which starts the timer before app.run, and Flask's
\* request threads
Requesters == Handlers \cup {"main"}
WorkerIds == 1..MaxWorkers

NoReq == [pc |-> "idle", kind |-> "none", header |-> <<>>, status |-> 0, target |-> 0]

\* Thread.is_alive(): started and not yet returned
IsAlive(w, id) == id # 0 /\ w[id] \in {"top", "waiting", "paused", "rotating"}
AliveWorkers(w) == {id \in WorkerIds : IsAlive(w, id)}

timerrest == <<rotate_lock, in_progress, pc, loc, result, history, clock, appended,
               cell_ip, iface_up, hw, routes, config, eff, log, reqs, cycles, workload,
               worker_config, stat, ops, imeivars, steps, guard, probe, view, poll,
               imei_gen>>

InitTimer ==
  /\ HostAtRest
  /\ hw = {"qmi", "rndis"}
  /\ iface_up = InitialUp(hw)
  /\ routes = {Route("lan", DefaultMetric)}
  /\ guard = NoGuard
  /\ probe = NoProbe
  /\ view = NoView
  /\ poll = NoPoll
  /\ imei_gen = NoGen
  /\ timer = [thread |-> 0,
              workers |-> [id \in WorkerIds |-> "unborn"],
              req |-> [r \in Requesters |->
                         IF r = "main" THEN [NoReq EXCEPT !.pc = "check", !.kind = "startup"]
                         ELSE NoReq],
              served |-> 0]

\* a request reaches its view function: load_config, the token test, and for
\* enable / disable the whole of set_auto_rotation_enabled
OpArrive(h) ==
  /\ timer.req["main"].pc = "done"
  /\ timer.req[h].pc = "idle"
  /\ timer.served < MaxOpRequests
  /\ \E kind \in {"enable", "disable", "restart"}, header \in Headers :
       LET arrived == [NoReq EXCEPT !.kind = kind, !.header = header]
       IN IF ~TokenAccepted(header)
          THEN /\ timer' = [timer EXCEPT !.served = @ + 1,
                              !.req[h] = [arrived EXCEPT !.pc = "rejected", !.status = 403]]
               /\ UNCHANGED auto_rotation_enabled
          ELSE IF kind = "restart"
          THEN /\ timer' = [timer EXCEPT !.served = @ + 1,
                              !.req[h] = [arrived EXCEPT !.pc = "stop"]]
               /\ UNCHANGED auto_rotation_enabled
          ELSE /\ timer' = [timer EXCEPT !.served = @ + 1,
                              !.req[h] = [arrived EXCEPT !.pc = "respond", !.status = 200]]
               /\ auto_rotation_enabled' = (kind = "enable")
  /\ UNCHANGED <<timerrest, stop_event>>

\* stop_auto_rotation: `if auto_rotation_thread and auto_rotation_thread.is_alive()`
StopCheck(h) ==
  /\ timer.req[h].pc = "stop"
  /\ IF IsAlive(timer.workers, timer.thread)
     THEN /\ stop_event' = TRUE
          /\ timer' = [timer EXCEPT !.req[h].pc = "join"]
     ELSE /\ stop_event' = stop_event
          /\ timer' = [timer EXCEPT !.req[h].pc = "sleep"]
  /\ UNCHANGED <<timerrest, auto_rotation_enabled>>

\* auto_rotation_thread.join(timeout=5) is called on the thread of that moment
JoinCall(h) ==
  /\ timer.req[h].pc = "join"
  /\ timer' = [timer EXCEPT !.req[h].pc = "joining", !.req[h].target = timer.thread]
  /\ UNCHANGED <<timerrest, auto_rotation_enabled, stop_event>>

\* join returns when the thread has ended, or after 5 s: a worker in its
\* 60 s sleep or in a rotation can outlast that, one in its interval wait
\* looks at the event every second
JoinReturn(h) ==
  /\ timer.req[h].pc = "joining"
  /\ \/ ~IsAlive(timer.workers, timer.req[h].target)
     \/ timer.workers[timer.req[h].target] \in {"paused", "rotating"}
  /\ timer' = [timer EXCEPT !.req[h].pc = "sleep"]
  /\ UNCHANGED <<timerrest, auto_rotation_enabled, stop_event>>

\* time.sleep(1)
RestartSleep(h) ==
  /\ timer.req[h].pc = "sleep"
  /\ timer' = [timer EXCEPT !.req[h].pc = "check"]
  /\ UNCHANGED <<timerrest, auto_rotation_enabled, stop_event>>

AfterStart(r, status) ==
  IF r = "main" THEN [NoReq EXCEPT !.pc = "done", !.kind = "startup"]
  ELSE [timer.req[r] EXCEPT !.pc = "respond", !.status = status]

\* start_auto_rotation: `if auto_rotation_thread is None or not ...is_alive()`
StartCheck(r) ==
  /\ timer.req[r].pc = "check"
  /\ timer' = IF IsAlive(timer.workers, timer.thread)
              THEN [timer EXCEPT !.req[r] = AfterStart(r, 200)]
              ELSE [timer EXCEPT !.req[r].pc = "clear"]
  /\ UNCHANGED <<timerrest, auto_rotation_enabled, stop_event>>

\* auto_rotation_stop_event.clear()
StartClear(r) ==
  /\ timer.req[r].pc = "clear"
  /\ stop_event' = FALSE
  /\ timer' = [timer EXCEPT !.req[r].pc = "create"]
  /\ UNCHANGED <<timerrest, auto_rotation_enabled>>

\* auto_rotation_thread = threading.Thread(target=auto_rotation_worker, ...)
StartCreate(r) ==
  /\ timer.req[r].pc = "create"
  /\ \E id \in WorkerIds :
       /\ timer.workers[id] = "unborn"
       /\ \A j \in WorkerIds : j < id => timer.workers[j] # "unborn"
       /\ timer' = [timer EXCEPT !.thread = id, !.workers[id] = "created",
                                 !.req[r].pc = "start"]
  /\ UNCHANGED <<timerrest, auto_rotation_enabled, stop_event>>

\* auto_rotation_thread.start(), on whatever the global names now; a thread
\* that was started already raises RuntimeError, answered with a 500
ThreadStart(r) ==
  /\ timer.req[r].pc = "start"
  /\ timer' = IF timer.workers[timer.thread] = "created"
              THEN [timer EXCEPT !.workers[timer.thread] = "top",
                                 !.req[r] = AfterStart(r, 200)]
              ELSE [timer EXCEPT !.req[r] = AfterStart(r, 500)]
  /\ UNCHANGED <<timerrest, auto_rotation_enabled, stop_event>>

\* the response is sent
OpRespond(h) ==
  /\ timer.req[h].pc \in {"respond", "rejected"}
  /\ timer' = [timer EXCEPT !.req[h] = NoReq]
  /\ UNCHANGED <<timerrest, auto_rotation_enabled, stop_event>>

\* where auto_rotation_worker goes next: the while test, the interval wait
\* (left at once when the event is set), the 60 s sleep, a rotation
WorkerNext(pos, stopping, enabled) ==
  IF pos = "top"
  THEN IF stopping THEN "exited" ELSE IF enabled THEN "waiting" ELSE "paused"
  ELSE IF pos = "waiting"
  THEN IF stopping THEN "exited" ELSE IF enabled THEN "rotating" ELSE "top"
  ELSE "top"

WorkerStep(id) ==
  /\ IsAlive(timer.workers, id)
  /\ timer' = [timer EXCEPT !.workers[id] =
                 WorkerNext(@, stop_event, auto_rotation_enabled)]
  /\ UNCHANGED <<timerrest, auto_rotation_enabled, stop_event>>

NextTimer ==
  \/ \E h \in Handlers :
       \/ OpArrive(h)
       \/ StopCheck(h)
       \/ JoinCall(h)
       \/ JoinReturn(h)
       \/ RestartSleep(h)
       \/ OpRespond(h)
  \/ \E r \in Requesters :
       \/ StartCheck(r)
       \/ StartClear(r)
       \/ StartCreate(r)
       \/ ThreadStart(r)
  \/ \E id \in WorkerIds : WorkerStep(id)

\* threads that exist keep running; requests come when they come
TimerRuns ==
  /\ \A h \in Handlers :
       /\ WF_vars(StopCheck(h))
       /\ WF_vars(JoinCall(h))
       /\ WF_vars(JoinReturn(h))
       /\ WF_vars(RestartSleep(h))
       /\ WF_vars(OpRespond(h))
  /\ \A r \in Requesters :
       /\ WF_vars(StartCheck(r))
       /\ WF_vars(StartClear(r))
       /\ WF_vars(StartCreate(r))
       /\ WF_vars(ThreadStart(r))
  /\ \A id \in WorkerIds : WF_vars(WorkerStep(id))

SpecTimer == InitTimer /\ [][NextTimer]_vars /\ TimerRuns


\* ========================================================= randomise_imei

\* random.randint(10000000, 99999999)
SuffixLow == 10000000
SuffixHigh == 99999999

\* how many serials between the two ends are followed
MaxSuffixes == 60

Suffixes ==
  {SuffixLow + k * ((SuffixHigh - SuffixLow) \div MaxSuffixes) : k \in 0..MaxSuffixes}
    \cup {SuffixHigh}

\* str(n), as the f-string formats the integer
RECURSIVE Digits(_)
Digits(n) == IF n < 10 THEN <<n>> ELSE Append(Digits(n \div 10), n % 10)

\* the literal 35000000 in front of the serial
TacPrefix == <<3, 5, 0, 0, 0, 0, 0, 0>>

\* random_imei = f"35000000{random_suffix}"
RandomImei(suffix) == TacPrefix \o Digits(suffix)

\* `line.isdigit() and len(line) == 15` in get_current_imei, `len(imei) == 15`
\* in save_original_imei
ImeiLength == 15
IsImei(line) ==
  /\ Len(line) = ImeiLength
  /\ \A i \in 1..Len(line) : line[i] \in 0..9

genrest == <<restvars, hw, iface_up, routes, guard, probe, view, poll, timer>>

InitGen ==
  /\ HostAtRest
  /\ hw = {"qmi", "rndis"}
  /\ iface_up = InitialUp(hw)
  /\ routes = {Route("lan", DefaultMetric)}
  /\ guard = NoGuard
  /\ probe = NoProbe
  /\ view = NoView
  /\ poll = NoPoll
  /\ timer = NoTimer
  /\ \E suffix \in Suffixes :
       imei_gen = [pc |-> "draw", suffix |-> suffix, imei |-> <<>>, accepted |-> FALSE]

\* randomise_imei up to the AT+EGMR command that carries random_imei
BuildImei ==
  /\ imei_gen.pc = "draw"
  /\ imei_gen' = [imei_gen EXCEPT !.pc = "sent", !.imei = RandomImei(imei_gen.suffix)]
  /\ UNCHANGED genrest

\* the modem answers AT+GSN with the string it was given; get_current_imei
\* takes the line as the IMEI, and saves it, only if it has the IMEI's form
ReadBack ==
  /\ imei_gen.pc = "sent"
  /\ imei_gen' = [imei_gen EXCEPT !.pc = "read", !.accepted = IsImei(imei_gen.imei)]
  /\ UNCHANGED genrest

NextGen == BuildImei \/ ReadBack

SpecGen == InitGen /\ [][NextGen]_vars

\* ================================================================== claims

\* the steps from teardown to verification
InRotation(t) == pc[t] \in {"teardown", "bringup", "verify"}

\* a handler between a successful acquire and the release
HoldsLock(h) == pc[h] \in {"set_flag", "begin", "teardown", "bringup", "verify",
                           "except", "finally", "release"}

\* the thread has reported the outcome of its rotation
Reported(t) == pc[t] \in {"finally", "release", "respond", "done"}
                 /\ result[t].status \in {"success", "failed"}

\* C1: at no time are two rotation sequences (teardown -> bring-up -> verify)
\* in progress at once, whether started by POST /rotate or by the timer.
C1_OneRotationAtATime ==
  \A t1, t2 \in Threads : InRotation(t1) /\ InRotation(t2) => t1 = t2

\* C2: a POST /rotate arriving while another one holds the lock is answered
\* busy (429) at once and changes nothing else: lock, in_progress, history,
\* routes, interfaces, the calls made so far and the other threads' state.
C2_BusyHasNoSideEffects ==
  [][\A h \in Handlers :
       (pc[h] = "idle" /\ pc'[h] # "idle" /\ \E g \in Handlers \ {h} : HoldsLock(g))
         => /\ result'[h] = Busy
            /\ pc'[h] = "respond"
            /\ eff'[h] = NoEff
            /\ UNCHANGED <<rotate_lock, in_progress, history, appended, routes,
                           iface_up, cell_ip>>
            /\ \A g \in Threads \ {h} :
                 /\ pc'[g] = pc[g]
                 /\ loc'[g] = loc[g]
                 /\ result'[g] = result[g]
                 /\ eff'[g] = eff[g]
                 /\ log'[g] = log[g]]_vars

C2_Witness ==
  \E h \in Handlers, g \in Handlers :
    /\ h # g
    /\ pc[h] = "respond" /\ result[h] = Busy
    /\ InRotation(g)

\* C3: whatever the outcome of a POST /rotate that acquired the lock, the lock
\* is released exactly once and in_progress is False when it returns, so the
\* next request can acquire the lock.
C3_LockAlwaysReleased ==
  \A h \in Handlers :
    /\ rotate_lock = h <=> HoldsLock(h)
    /\ pc[h] = "release" => ~in_progress
    /\ (pc[h] = "respond" /\ result[h] # Busy) => eff[h].released = 1
    /\ (\A g \in Handlers : ~HoldsLock(g)) => (rotate_lock = None /\ ~in_progress)

C3_Witness ==
  \E h \in Handlers :
    /\ pc[h] = "respond"
    /\ result[h].status = "failed"
    /\ log[h].last = "exception"
    /\ eff[h].released = 1
    /\ rotate_lock = None

\* C4: a rotation is never reported as success when the IP verified after
\* bring-up equals previous_ip, and when that is so on every one of the
\* max_attempts attempts the reported outcome is failure.
C4_SameIpIsNeverSuccess ==
  \A t \in Threads :
    /\ result[t].status = "success" => loc[t].new_ip # loc[t].previous_ip
    /\ (Reported(t) /\ loc[t].max_attempts >= 1
          /\ log[t].same = loc[t].max_attempts) => result[t].status = "failed"

C4_Witness ==
  /\ Reported(AutoWorker)
  /\ result[AutoWorker].status = "failed"
  /\ loc[AutoWorker].max_attempts > 1
  /\ log[AutoWorker].same = loc[AutoWorker].max_attempts
  /\ loc[AutoWorker].new_ip = PublicIp(cell_ip)

\* C5: a rotation is never reported as success when the post-rotation check
\* returned a private/LAN address or an unknown/error sentinel.
C5_SentinelIsNeverSuccess ==
  \A t \in Threads :
    result[t].status = "success" => loc[t].new_ip \notin Sentinels

\* C6: if bring-up raises on attempts 1..k-1 and attempt k comes up ready with
\* a cellular public IP different from the one before the rotation, POST
\* /rotate answers success with attempts = k and the history gains exactly
\* one entry, not marked failed.
C6_RetryThenNewIpSucceeds ==
  \A h \in Handlers :
    (/\ pc[h] \in {"finally", "release", "respond"}
     /\ log[h].last = "verified"
     /\ log[h].verified = 1
     /\ log[h].timed_out = 0
     /\ log[h].seen_reply = "ok"
     /\ log[h].seen_cell # log[h].start_cell)
    => /\ result[h].status = "success"
       /\ result[h].attempts = log[h].raised + 1
       /\ eff[h].hist = 1
       /\ eff[h].forced = 0

\* C7: on each transport, when every attempt of a POST /rotate brings the
\* interface up but the verified IP is unchanged, the answer is failed, the
\* history gains exactly one forced entry marked failed with a note, and the
\* notification sink is invoked with is_failure=True.
C7_UnchangedIpIsRecordedAsFailure ==
  \A h \in Handlers :
    (/\ pc[h] \in {"finally", "release", "respond"}
     /\ loc[h].max_attempts >= 1
     /\ log[h].same = loc[h].max_attempts)
    => /\ result[h].status = "failed"
       /\ eff[h].forced = 1
       /\ eff[h].notif_fail = 1

\* C8: a POST /rotate with a bad or missing token never holds the rotation
\* lock, never sets in_progress and causes no notification.
C8_BadTokenTakesNoLock ==
  \A h \in Handlers :
    ~loc[h].token_ok => (rotate_lock # h /\ eff[h].notif = 0 /\ ~HoldsLock(h))

\* the LAN default route the host started with is there and every other
\* default route has a strictly higher metric
LanStillPrimary(rt) ==
  /\ Route("lan", DefaultMetric) \in rt
  /\ \A r \in rt : r # Route("lan", DefaultMetric) => r.metric > DefaultMetric

\* C9: after any rotation, on any transport, the host's pre-existing LAN
\* default route is still present with strictly the lowest metric.
C9_LanRouteStaysPrimary ==
  \A t \in Threads : Reported(t) => LanStillPrimary(routes)

Min(a, b) == IF a < b THEN a ELSE b

\* C10: starting from an empty history, the log holds min(entries appended,
\* 10) entries and they are exactly the most recently appended ones, in the
\* order they were appended.
C10_HistoryKeepsLastTen ==
  /\ Len(history.ips) = Min(Len(appended), HistoryCap)
  /\ history.ips = LastN(appended, HistoryCap)

C10_Witness ==
  /\ Len(appended) > HistoryCap
  /\ Len(history.ips) = HistoryCap
  /\ history.ips[1] = appended[Len(appended) - HistoryCap + 1]

\* C11: starting from an empty history, the rotations counter never
\* decreases, is unchanged by a call that appends nothing, is unchanged by the
\* call that records the very first observation (which sets first_seen), and
\* grows by exactly one at every other call that appends an entry.
C11_RotationsCountAppends ==
  [][/\ history'.rotations >= history.rotations
     /\ appended' = appended => history'.rotations = history.rotations
     /\ (appended' # appended /\ history.first_seen = NoTime)
          => (history'.rotations = history.rotations /\ history'.first_seen # NoTime)
     /\ (appended' # appended /\ history.first_seen # NoTime)
          => history'.rotations = history.rotations + 1]_vars

C11_Witness ==
  /\ history.rotations >= 2
  /\ Len(appended) = history.rotations + 1
  /\ \E i \in 1..Len(history.ips) : history.ips[i].failed
  /\ \E i \in 1..Len(history.ips) : ~history.ips[i].failed

\* C12: every POST /rotate that has returned carries exactly one structured
\* result, busy, success or failed, whatever the rotation configuration
\* (every value of max_attempts included).
C12_AlwaysStructuredResult ==
  \A h \in Handlers :
    pc[h] = "respond" => result[h].status \in {"busy", "success", "failed"}

\* what a check of the public IP through the cellular egress can observe
\* while the carrier assigns `cell`
Observed(cell) ==
  {NoCellular} \cup
  {GetCurrentIp(FALSE, [t \in Transports |-> TRUE], r) : r \in ProxyReplies(cell)}

\* C13: the previous_ip a rotation compares against and returns is the public
\* IP observed through the cellular egress just before its teardown began,
\* for manual and scheduled rotations, also when a scheduled rotation starts
\* while a manual one is in flight.
C13_PreviousIpIsObserved ==
  \A t \in Threads :
    /\ InRotation(t) => loc[t].previous_ip \in Observed(log[t].start_cell)
    /\ (Reported(t) /\ log[t].last = "verified")
         => result[t].previous_ip \in Observed(log[t].start_cell)

\* the driver the configuration calls for: the explicit mode, or under auto
\* the priority QMI > RNDIS > PPP over the interfaces the probe finds
WantedTransport ==
  IF config.mode # "auto" THEN config.mode
  ELSE IF "qmi" \in hw THEN "qmi"
  ELSE IF "rndis" \in hw THEN "rndis"
  ELSE "ppp"

\* C14: the driver a rotation runs is the one the configured mode names when
\* the mode is qmi, rndis or ppp, and under auto it is QMI if a QMI interface
\* is found, else RNDIS if an RNDIS interface is found, else PPP.
C14_TransportFollowsMode ==
  \A t \in Threads :
    (InRotation(t) \/ Reported(t)) => loc[t].transport = WantedTransport

C15_StatusSkipsDuringRotation ==
  [][(stat = NoStat /\ stat' # NoStat /\ \E t \in Threads : InRotation(t))
       => (~stat'.serial /\ stat'.public_ip = Rotating)]_vars

\* the rotation settings thread t works with are those of config.yaml
UsesStoredConfig(t) ==
  /\ loc[t].max_attempts = config.max_attempts
  /\ loc[t].deep_enabled = config.deep_enabled
  /\ loc[t].transport = SelectTransport(config.mode, "qmi" \in hw, "rndis" \in hw)

\* C18: a rotation, manual or scheduled, works with the rotation settings
\* that are in config.yaml at the moment it starts, so an edit made before
\* the rotation starts is seen by it.
C18_RotationUsesFreshConfig ==
  [][/\ cycles' # cycles => UsesStoredConfig(AutoWorker)'
     /\ \A h \in Handlers :
          (pc[h] = "begin" /\ pc'[h] \in {"teardown", "finally"})
            => UsesStoredConfig(h)']_vars

EnteredLoop(t) == loc[t].token_ok /\ log[t].start_cell # <<>>

\* the step is a bring-up of t that raised or timed out
BringUpFailedStep(t) == pc[t] = "bringup" /\ pc'[t] # "verify" /\ pc'[t] # "bringup"

\* t is in its attempt number max_attempts
LastAttemptFailed(t) == IsLastAttempt(loc[t])

\* C19: in the attempt loop a bring-up exception or readiness timeout on an
\* attempt that is not the last leads to the next attempt and is not reported;
\* a failure is reported only when attempt number max_attempts has failed; and
\* teardown and bring-up run at most max_attempts times per request
C19_AttemptLoopRetries ==
  /\ [][\A t \in Threads :
          (BringUpFailedStep(t) /\ ~IsLastAttempt(loc[t]))
          => /\ pc'[t] = "teardown"
             /\ loc'[t].attempt = loc[t].attempt + 1
             /\ result'[t] = result[t]]_vars
  /\ [](\A t \in Threads :
          (EnteredLoop(t) /\ result[t].status = "failed") => LastAttemptFailed(t))
  /\ [](\A t \in Threads :
          EnteredLoop(t) => /\ eff[t].teardowns <= loc[t].max_attempts
                            /\ eff[t].bringups <= loc[t].max_attempts)

\* the step is t's IP verification: get_current_ip after a bring-up
VerifyStep(t) == pc[t] = "verify" /\ pc'[t] # "verify"

\* C20: every attempt that reaches IP verification appends an entry for the
\* observed IP to the history, the same IP as the last recorded one included,
\* on every transport
C20_EveryVerifiedAttemptRecorded ==
  [][\A t \in Threads :
       VerifyStep(t)
       => /\ Len(appended') > Len(appended)
          /\ appended'[Len(appended) + 1].ip = loc'[t].new_ip]_vars

\* the step is t's teardown call / deep reset call / start call
TeardownStep(t) == pc[t] = "teardown" /\ pc'[t] # "teardown"
DeepResetStep(t) == pc[t] = "deep" /\ pc'[t] # "deep"
StartStep(t) == pc[t] = "start" /\ pc'[t] # "start"

Has(s, x) == \E i \in 1..Len(s) : s[i] = x

\* where a step stands in an attempt: teardown, reset, bring-up, readiness
Rank(x) ==
  IF x \in {"teardown", "teardown_skipped", "teardown_raised"} THEN 1
  ELSE IF x = "bringup" THEN 3
  ELSE IF x \in {"ready", "timeout"} THEN 4
  ELSE 2

InOrder(s) == \A i, j \in 1..Len(s) : i < j => Rank(s[i]) <= Rank(s[j])

\* C21: within an attempt the steps come in the order teardown, deep reset (if
\* any), bring-up, wait-for-ready, verification: a deep reset starts only right
\* after the teardown was applied and is over when bring-up starts, and the
\* public IP is verified only after readiness was observed
C21_StepsInOrder ==
  /\ [](\A t \in Threads : InOrder(steps[t]))
  /\ [][\A t \in Threads :
          /\ DeepResetStep(t) => steps[t] = <<"teardown">>
          /\ StartStep(t) => (Has(steps[t], "deep_reset")
                                => steps[t][Len(steps[t])] \in RadioOutcomes)
          /\ VerifyStep(t) => steps[t][Len(steps[t])] = "ready"]_vars

\* a second attempt with a deep reset has reached verification
C21_Witness ==
  \E t \in Threads :
    /\ pc[t] = "verify"
    /\ loc[t].attempt = 1
    /\ Has(steps[t], "deep_reset")

\* the thread's rotation is over (result reported or exception being handled)
RotationOver(t) == pc[t] \in {"except", "finally", "release", "respond", "done"}

\* C22: no mid-rotation abort: once an attempt's teardown has taken the
\* interface down, a bring-up is attempted in that attempt before the rotation
\* ends, whatever disable or restart requests arrive meanwhile
C22_NoMidRotationAbort ==
  /\ [](\A t \in Threads :
          (RotationOver(t) /\ Has(steps[t], "teardown")) => Has(steps[t], "bringup"))
  /\ \A t \in Threads :
       (pc[t] \in {"deep", "start"} /\ Has(steps[t], "teardown"))
         ~> Has(steps[t], "bringup")

\* a scheduled rotation ended with its bring-up attempted although the timer
\* was disabled and a restart was requested while it ran
C22_Witness ==
  /\ pc[AutoWorker] = "done"
  /\ Has(steps[AutoWorker], "teardown")
  /\ Has(steps[AutoWorker], "bringup")
  /\ stop_event
  /\ ~auto_rotation_enabled

\* C23: on QMI and RNDIS every attempt's teardown, the first included, goes
\* through the deep reset (IMEI randomisation attempted when configured), in
\* manual and scheduled rotations alike, whatever deep_reset_enabled says
C23_DeepResetOnEveryAttempt ==
  [][\A t \in Threads :
       loc[t].transport \in {"qmi", "rndis"}
       => /\ (TeardownStep(t) /\ steps'[t] = <<"teardown">>) => pc'[t] = "deep"
          /\ StartStep(t) => (Has(steps[t], "teardown") => Has(steps[t], "deep_reset"))
          /\ DeepResetStep(t) =>
               ((Has(steps'[t], "imei_changed") \/ Has(steps'[t], "imei_failed"))
                  <=> config.randomise_imei)]_vars

\* a first attempt on QMI or RNDIS is past its deep reset
C23_Witness ==
  \E t \in Threads :
    /\ loc[t].transport \in {"qmi", "rndis"}
    /\ loc[t].attempt = 0
    /\ pc[t] = "start"
    /\ Has(steps[t], "deep_reset")

\* C24: every POST /rotate that is not answered busy invokes the notification
\* sink exactly once before it returns: as a successful rotation when the
\* result is success, as a failure when the result is failed (an unexpected
\* exception included)
C24_NotifiedExactlyOnce ==
  \A h \in Handlers :
    (pc[h] = "respond" /\ result[h].status # "busy")
    => /\ eff[h].notif = 1
       /\ result[h].status = "success" => eff[h].notif_fail = 0
       /\ result[h].status = "failed" => eff[h].notif_fail = 1

HasLanDefault(rt) == \E r \in rt : r.dev = "lan"

\* the guard found a primary default route that is not via ppp0
PrimaryNotPpp(rt) == rt # {} /\ FirstDefault(rt).dev # "ppp0"

\* C25: when the primary default route is not via ppp0, the guard re-installs
\* that very route (same gateway, same metric, so the table is as it was),
\* every default route it adds via ppp0 has a strictly higher metric than the
\* primary, and a LAN default route that was there is there after each step.
C25_GuardKeepsLanDefault ==
  (guard.pc # "off" /\ PrimaryNotPpp(guard.before)) =>
     /\ guard.pc = "replaced" => routes = guard.before
     /\ \A r \in routes \ guard.before :
          r.dev = "ppp0" /\ r.metric > FirstDefault(guard.before).metric
     /\ HasLanDefault(guard.before) => HasLanDefault(routes)

\* a tool the probe ran exited non-zero or timed out
ToolFailed(p) == p.listing # "ok" \/ p.addr \in {"fail", "timeout"}

\* some listed interface carries the probe's prefix
Matching(p) == {p.links[i] : i \in 1..Len(p.links)} \cap ProbedNames(p.kind)

\* C26: the QMI / RNDIS probe never raises; it returns (None, False) when a
\* tool it runs fails or times out or when no interface matches, and
\* otherwise the name of a matching interface together with whether that
\* interface has an IPv4 address.
C26_ProbeResults ==
  probe.pc = "returned" =>
     /\ probe.result # Raised
     /\ ToolFailed(probe) \/ Matching(probe) = {} => probe.result = Found(None, FALSE)
     /\ ~ToolFailed(probe) /\ Matching(probe) # {} =>
          /\ probe.result.iface \in Matching(probe)
          /\ probe.result.has_ip = (probe.result.iface \in probe.with_ip)

\* C27: with working tools the RNDIS probe returns the name of a listed enx*,
\* eth1 or usb0 interface whenever there is one, and the names it accepts are
\* those the setup-time detection accepts.
C27_RndisNamingConventions ==
  LET listed == {probe.links[i] : i \in 1..Len(probe.links)}
  IN (probe.pc = "returned" /\ probe.kind = "rndis" /\ ~ToolFailed(probe)) =>
       /\ listed \cap SetupRndisNames # {} => probe.result.iface \in SetupRndisNames
       /\ listed \cap SetupRndisNames = {} => probe.result.iface = None

\* 10.0.0.0/8, 172.16.0.0/12, 192.168.0.0/16
InPrivateRange(a) ==
  \/ a[1] = 10
  \/ a[1] = 172 /\ a[2] >= 16 /\ a[2] <= 31
  \/ a[1] = 192 /\ a[2] = 168

\* C28: when get_current_ip has an address from the proxy, it returns the
\* 'cellular routing broken' warning if the address is in 10.0.0.0/8,
\* 172.16.0.0/12 or 192.168.0.0/16, and the address itself otherwise.
C28_PrivateRangeWarning ==
  (view.pc = "returned" /\ AnyCellularUp(iface_up)) =>
     view.value = IF InPrivateRange(view.reply.body)
                  THEN LanWarning(view.reply.body)
                  ELSE PublicIp(view.reply.body)

\* the reset step being taken recorded a failed randomise_imei call
ImeiFailedIn(t) ==
  /\ DeepResetStep(t)
  /\ Len(steps'[t]) >= Len(steps[t]) + 2
  /\ steps'[t][Len(steps[t]) + 2] = "imei_failed"

\* C29: when randomise_imei fails inside a deep reset (command rejected, no
\* control device, serial error), the radio cycle / smart rotation still
\* runs right after it, the teardown returns and the attempt goes on to
\* bring-up, with no result, log entry or identity change, as it does when
\* randomisation is disabled.
C29_ImeiFailureNonFatal ==
  [][\A t \in Threads :
       ImeiFailedIn(t) =>
          /\ Len(steps'[t]) = Len(steps[t]) + 3
          /\ steps'[t][Len(steps'[t])] \in RadioOutcomes
          /\ pc'[t] = "start"
          /\ UNCHANGED <<result, log, loc, modem_imei, iface_up, routes>>]_vars

C29_Witness ==
  \E t \in Threads :
    /\ pc[t] = "wait"
    /\ Has(steps[t], "imei_failed")
    /\ Has(steps[t], "radio_cycle")
    /\ Has(steps[t], "bringup")

\* C30: every wait_for_qmi_up / wait_for_rndis_up / wait_for_ppp_up call
\* returns; it returns True only after a probe of it saw the interface with
\* an IPv4 address, and False only once the deadline has passed.
C30_PollTerminates ==
  /\ [](poll.pc = "done" /\ poll.ret => poll.seen)
  /\ [](poll.pc = "done" /\ ~poll.ret => poll.now >= poll.deadline)
  /\ (poll.pc # "off") ~> (poll.pc = "done")

\* C31: a call that is not forced appends nothing when its ip is the ip of
\* the last entry, so two neighbouring entries with the same ip exist only
\* where the later one is a forced failure record; a call leaves the entries
\* it found in their order and puts its own entry last.
C31_NoUnforcedRepeat ==
  /\ [](\A i \in 1..(Len(history.ips) - 1) :
          history.ips[i].ip = history.ips[i + 1].ip => history.ips[i + 1].failed)
  /\ [][appended' # appended =>
          /\ history'.ips = Trim(Append(history.ips, appended'[Len(appended')]))
          /\ (~appended'[Len(appended')].failed /\ history.ips # <<>>)
               => history.ips[Len(history.ips)].ip # appended'[Len(appended')].ip]_vars

C31_Witness ==
  /\ Len(history.ips) >= 3
  /\ history.ips[1].ip = history.ips[2].ip
  /\ history.ips[2].failed
  /\ ~history.ips[3].failed
  /\ history.ips[3].ip # history.ips[2].ip

\* the request that just reached its view function does not carry the
\* configured token
BadTokenArrives(h) ==
  /\ timer.req[h].pc = "idle"
  /\ timer'.req[h].pc # "idle"
  /\ ~Contains(ApiToken, timer'.req[h].header)

\* C32: an enable, disable or restart request whose Authorization header is
\* missing or does not carry the configured token is answered 403 and changes
\* neither the enabled flag, nor the stop event, nor the thread the timer
\* names, nor any worker thread; it never goes on into the stop / start code.
C32_BadTokenLeavesTimerAlone ==
  /\ [][\A h \in Handlers :
          BadTokenArrives(h) =>
             /\ timer'.req[h].status = 403
             /\ timer'.req[h].pc = "rejected"
             /\ UNCHANGED <<auto_rotation_enabled, stop_event>>
             /\ timer'.thread = timer.thread
             /\ timer'.workers = timer.workers]_vars
  /\ [](\A h \in Handlers :
          (timer.req[h].pc # "idle" /\ ~Contains(ApiToken, timer.req[h].header))
             => timer.req[h].pc = "rejected")

C32_Witness ==
  \E h \in Handlers :
    /\ timer.req[h].pc = "rejected"
    /\ timer.req[h].kind = "restart"
    /\ timer.req[h].header = <<"Bearer", "k2", "k1">>
    /\ AliveWorkers(timer.workers) # {}
    /\ ~stop_event

\* POST /auto-rotation/restart is about to answer 'restarted'
Restarted(h) ==
  /\ timer.req[h].kind = "restart"
  /\ timer.req[h].pc = "respond"
  /\ timer.req[h].status = 200

\* C33: once a restart request answers 'restarted', a worker thread is
\* eventually alive with the stop event cleared, whatever the worker was doing
\* when the request came.
C33_RestartLeavesWorkerAlive ==
  \A h \in Handlers :
    Restarted(h) ~> (AliveWorkers(timer.workers) # {} /\ ~stop_event)

\* C34: at most one auto-rotation worker thread is alive at any time.
C34_AtMostOneWorker ==
  Cardinality(AliveWorkers(timer.workers)) <= 1

\* what wait_for_ppp_up makes of its argument
WaitedFor(w) == IF w > MinWait THEN w ELSE MinWait

\* C35: on the PPP path of POST /rotate the first attempt goes from the PPP
\* teardown straight to bring-up; a later attempt runs deep_reset_modem,
\* between teardown and bring-up, exactly when the configuration enables deep
\* reset; and a later attempt waits longer for ppp0 than the first one does.
C35_PppDeepResetFromSecondAttempt ==
  [][\A h \in Handlers :
       loc[h].transport = "ppp" =>
          /\ TeardownStep(h) =>
               pc'[h] = IF loc[h].attempt > 0 /\ config.deep_enabled THEN "deep" ELSE "start"
          /\ DeepResetStep(h) =>
               /\ steps[h][Len(steps[h])] = "teardown"
               /\ pc'[h] = "start"
          /\ (StartStep(h) /\ pc'[h] = "wait") =>
               IF loc[h].attempt = 0
               THEN log'[h].waited = PppRestartWait
               ELSE WaitedFor(log'[h].waited) > WaitedFor(PppRestartWait)]_vars

C35_Witness ==
  \E h \in Handlers :
    /\ loc[h].transport = "ppp"
    /\ loc[h].attempt = 1
    /\ config.deep_enabled
    /\ pc[h] = "wait"
    /\ Has(steps[h], "deep_reset")
    /\ log[h].waited > PppRestartWait

\* C36: the scheduled rotation makes the calls POST /rotate would make in the
\* same place: with the same configuration, transport and attempt number, a
\* task deep-resets after the teardown exactly when a handler would, and
\* waits for the link as long as a handler would.
C36_ScheduledMatchesManual ==
  [][\A t \in Threads : \A h \in Handlers :
       /\ (TeardownStep(t) /\ steps'[t] = <<"teardown">>) =>
            ((pc'[t] = "deep") <=> DeepResetOnAttempt(h, loc[t]))
       /\ (StartStep(t) /\ pc'[t] = "wait") =>
            log'[t].waited = TotalWait(h, loc[t])]_vars

\* C37: every entry of the IP history holds a public address that was
\* observed: never "Rotating...", "No cellular connection", a proxy error
\* text or a LAN warning.
C37_HistoryHoldsObservedIps ==
  \A i \in 1..Len(history.ips) :
    \E a \in CellIPs : history.ips[i].ip = PublicIp(a)

\* C38: every IMEI randomise_imei builds is the prefix followed by the
\* serial, 15 decimal digits in all, and get_current_imei and
\* save_original_imei take it as an IMEI.
C38_GeneratedImeiIsWellFormed ==
  /\ imei_gen.pc \in {"sent", "read"} =>
       /\ SubSeq(imei_gen.imei, 1, Len(TacPrefix)) = TacPrefix
       /\ Len(imei_gen.imei) = ImeiLength
       /\ \A i \in 1..Len(imei_gen.imei) : imei_gen.imei[i] \in 0..9
  /\ imei_gen.pc = "read" => imei_gen.accepted

\* C39: in_progress is True only while a POST /rotate handler holds
\* rotate_lock: the flag is raised by the handler that has just taken the
\* lock, and it is down again when the lock is given back; so the flag up
\* means the lock is held, and the lock free means the flag is down.
C39_FlagOnlyUnderLock ==
  /\ [](in_progress => rotate_lock \in Handlers)
  /\ [](rotate_lock = None => ~in_progress)
  /\ [][/\ (~in_progress /\ in_progress') =>
             (rotate_lock \in Handlers /\ rotate_lock' = rotate_lock)
        /\ (rotate_lock # None /\ rotate_lock' = None) =>
             (~in_progress /\ ~in_progress')]_vars

C39_Witness ==
  \E h \in Handlers :
    /\ rotate_lock = h
    /\ in_progress
    /\ pc[h] = "verify"

====
